---- MODULE Spec2Model ----
(***************************************************************************)
(* A model of kiosk-autoscaler: the Autoscaler engine                      *)
(* (src/autoscaler/autoscaler.py) and the RedisClient wrapper               *)
(* (src/autoscaler/redis.py).                                               *)
(*                                                                          *)
(* Python strings are sequences of one-character strings, so that split,    *)
(* strip and int are modelled by what they do to the characters.            *)
(***************************************************************************)
EXTENDS Integers, Sequences, FiniteSets, TLC

VARIABLES
    pc,                           \* position of the caller of the engine
    call,                         \* the engine method the caller is running
    attrs,                        \* the attributes the engine instance has
    exc,                          \* the exception that escaped the last call
    scaling_config,               \* constructor argument (a string)
    secondary_scaling_config,     \* constructor argument (a string)
    deployment_delim,             \* constructor argument (a string)
    param_delim,                  \* constructor argument (a string)
    autoscaling_params,           \* self.autoscaling_params, in dict order
    secondary_autoscaling_params, \* self.secondary_autoscaling_params
    redis_keys,                   \* self.redis_keys (the tally)
    reference_pods,               \* self.reference_pods
    store,                        \* the hashes held by the backlog store
    cluster,                      \* the replica counts held by the cluster
    idx,                          \* loop position inside a scaling pass
    calls,                        \* cluster-API calls issued by the current pass
    ret,                          \* the scale_resource call of the last loop iteration
    fn,                           \* pure-function harness: the call and its result
    rc                            \* RedisClient harness: one call through the wrapper

vars == <<pc, call, attrs, exc, scaling_config, secondary_scaling_config, deployment_delim,
          param_delim, autoscaling_params, secondary_autoscaling_params,
          redis_keys, reference_pods, store, cluster, idx, calls, ret, fn, rc>>

----------------------------------------------------------------------------
(* Bounds of the model *)

\* largest replica count a cluster resource starts with
MaxPods == 3

\* largest number of store hashes per queue prefix
MaxKeys == 2

\* replicas of the reference deployment of the secondary rules
MaxRef == 2

\* largest number of connection errors the store answers in a row
MaxFailures == 2

----------------------------------------------------------------------------
(* Python values *)

\* a value that may be None: <<>> is None, <<v>> is v
Null == <<>>
Some(v) == <<v>>

Max2(a, b) == IF a >= b THEN a ELSE b
Min2(a, b) == IF a <= b THEN a ELSE b

\* max(list) and min(list) of a non-empty list of integers
MaxOf(s) == CHOOSE m \in {s[i] : i \in DOMAIN s} : \A i \in DOMAIN s : s[i] <= m
MinOf(s) == CHOOSE m \in {s[i] : i \in DOMAIN s} : \A i \in DOMAIN s : s[i] >= m

\* the quotient rounded up
CeilDiv(a, b) == 0 - ((0 - a) \div b)

\* Python's floor division a // b for b # 0
FloorDiv(a, b) ==
    IF b > 0 THEN a \div b
    ELSE (0 - a) \div (0 - b)

----------------------------------------------------------------------------
(* Python strings: str.strip, str.rstrip, str.split, str.join, int *)

Whitespace == {" ", "\n", "\t"}

DigitChars == <<"0", "1", "2", "3", "4", "5", "6", "7", "8", "9">>

IsDigit(c) == \E i \in DOMAIN DigitChars : DigitChars[i] = c

DigitVal(c) == (CHOOSE i \in DOMAIN DigitChars : DigitChars[i] = c) - 1

RECURSIVE RStrip(_)
RStrip(s) ==
    IF s # <<>> /\ s[Len(s)] \in Whitespace
    THEN RStrip(SubSeq(s, 1, Len(s) - 1))
    ELSE s

RECURSIVE LStrip(_)
LStrip(s) ==
    IF s # <<>> /\ Head(s) \in Whitespace THEN LStrip(Tail(s)) ELSE s

Strip(s) == LStrip(RStrip(s))

StartsWith(s, d) == Len(d) <= Len(s) /\ SubSeq(s, 1, Len(d)) = d

\* s.split(d) for a non-empty separator d
RECURSIVE SplitAcc(_, _, _)
SplitAcc(s, d, cur) ==
    IF s = <<>> THEN <<cur>>
    ELSE IF StartsWith(s, d)
         THEN <<cur>> \o SplitAcc(SubSeq(s, Len(d) + 1, Len(s)), d, <<>>)
         ELSE SplitAcc(Tail(s), d, Append(cur, Head(s)))

Split(s, d) == SplitAcc(s, d, <<>>)

\* d.join(parts)
RECURSIVE Join(_, _)
Join(parts, d) ==
    IF parts = <<>> THEN <<>>
    ELSE IF Len(parts) = 1 THEN parts[1]
    ELSE parts[1] \o d \o Join(Tail(parts), d)

RECURSIVE DigitsValue(_, _)
DigitsValue(s, acc) ==
    IF s = <<>> THEN acc ELSE DigitsValue(Tail(s), 10 * acc + DigitVal(Head(s)))

\* int(s): surrounding whitespace is ignored, one sign is allowed, the rest
\* must be one or more digits; anything else is a ValueError (ok = FALSE)
ParseInt(s) ==
    LET t == Strip(s)
        signed == t # <<>> /\ Head(t) \in {"-", "+"}
        body == IF signed THEN Tail(t) ELSE t
        good == body # <<>> /\ \A i \in DOMAIN body : IsDigit(body[i])
    IN  IF ~good THEN [ok |-> FALSE, val |-> 0]
        ELSE [ok |-> TRUE,
              val |-> IF signed /\ Head(t) = "-"
                      THEN 0 - DigitsValue(body, 0)
                      ELSE DigitsValue(body, 0)]

----------------------------------------------------------------------------
(* String constants of the program *)

S_deployment == <<"d", "e", "p", "l", "o", "y", "m", "e", "n", "t">>
S_job == <<"j", "o", "b">>
S_predict == <<"p", "r", "e", "d", "i", "c", "t">>
S_train == <<"t", "r", "a", "i", "n">>
S_track == <<"t", "r", "a", "c", "k">>

managed_resource_types == {S_deployment, S_job}

completed_statuses == {"done", "failed"}

TallyPrefixes == {S_predict, S_train, S_track}

----------------------------------------------------------------------------
(* Autoscaler._get_primary_autoscaling_params *)

\* position of fingerprint key in params (a dict kept in insertion order),
\* 0 when the dict has no such key
KeyIndex(params, key) ==
    IF \E i \in DOMAIN params : params[i].key = key
    THEN CHOOSE i \in DOMAIN params : params[i].key = key
    ELSE 0

\* the rule built from a well-formed entry
RuleOf(entry) ==
    [min_pods |-> ParseInt(entry[1]).val,
     max_pods |-> ParseInt(entry[2]).val,
     keys_per_pod |-> ParseInt(entry[3]).val,
     prefix |-> Strip(entry[6])]

\* `if namespace_resource_type_name not in params: params[...] = []`
RegisterKey(params, key) ==
    IF KeyIndex(params, key) = 0
    THEN Append(params, [key |-> key, entries |-> <<>>])
    ELSE params

\* one iteration of the loop over raw_params: the body of the try block, with
\* IndexError and ValueError ending the iteration where they are raised
AddEntry(params, entry) ==
    IF Len(entry) < 7 THEN params                 \* IndexError at entry[3..6]
    ELSE
        LET key == <<Strip(entry[4]), Strip(entry[5]), Strip(entry[7])>>
            reg == RegisterKey(params, key)
            i == KeyIndex(reg, key)
        IN  IF \A f \in 1..3 : ParseInt(entry[f]).ok
            THEN [reg EXCEPT ![i].entries = Append(@, RuleOf(entry))]
            ELSE reg                              \* ValueError at int(...)

RECURSIVE AddEntries(_, _)
AddEntries(params, raw_params) ==
    IF raw_params = <<>> THEN params
    ELSE AddEntries(AddEntry(params, Head(raw_params)), Tail(raw_params))

\* raw_params = [x.split(param_delim) for x in config.split(deployment_delim)]
RawParams(config, d_delim, p_delim) ==
    LET entries == Split(config, d_delim)
    IN  [i \in DOMAIN entries |-> Split(entries[i], p_delim)]

\* str.split raises ValueError for an empty separator, outside the try block
SplitRaises(d_delim, p_delim) == d_delim = <<>> \/ p_delim = <<>>

_get_primary_autoscaling_params(config, d_delim, p_delim) ==
    AddEntries(<<>>, RawParams(config, d_delim, p_delim))

_get_secondary_autoscaling_params(config, d_delim, p_delim) ==
    RawParams(config, d_delim, p_delim)

----------------------------------------------------------------------------
(* Autoscaler.clip_pod_count, get_desired_pods, get_secondary_desired_pods *)

\* the scale-down guard left out
ClipNoGuard(desired_pods, min_pods, max_pods, current_pods) ==
    IF desired_pods > max_pods THEN max_pods
    ELSE IF desired_pods < min_pods THEN min_pods
    ELSE desired_pods

clip_pod_count(desired_pods, min_pods, max_pods, current_pods) ==
    LET clamped == IF desired_pods > max_pods THEN max_pods
                   ELSE IF desired_pods < min_pods THEN min_pods
                   ELSE desired_pods
    IN  IF 0 < clamped /\ clamped < current_pods THEN current_pods ELSE clamped

\* get_desired_pods raises KeyError for a key the tally does not hold and
\* ZeroDivisionError for keys_per_pod = 0
DesiredPodsRaises(keys, key, keys_per_pod) ==
    IF key \notin DOMAIN keys THEN "KeyError"
    ELSE IF keys_per_pod = 0 THEN "ZeroDivisionError"
    ELSE "none"

get_desired_pods(keys, key, keys_per_pod, min_pods, max_pods, current_pods) ==
    clip_pod_count(FloorDiv(keys[key], keys_per_pod),
                   min_pods, max_pods, current_pods)

\* the current count is left out of the raw value
SecondaryDesiredFromReference(reference_pods_, pods_per_reference_pod, min_pods, max_pods, current_pods) ==
    clip_pod_count(pods_per_reference_pod * reference_pods_,
                   min_pods, max_pods, current_pods)

get_secondary_desired_pods(reference_pods_, pods_per_reference_pod, min_pods, max_pods, current_pods) ==
    clip_pod_count(current_pods + pods_per_reference_pod * reference_pods_,
                   min_pods, max_pods, current_pods)

----------------------------------------------------------------------------
(* The cluster: the resources the Kubernetes API lists and patches *)

N_ns == <<"n", "s">>
N_a == <<"a">>
N_b == <<"b">>
N_r == <<"r">>

\* the resources that exist in the cluster, as (namespace, type, name)
RA == <<N_ns, S_deployment, N_a>>
RB == <<N_ns, S_job, N_b>>
RR == <<N_ns, S_deployment, N_r>>

Resources == {RA, RB, RR}

\* an item of a listing: metadata.name, spec.replicas of a deployment or
\* spec.parallelism of a job (value) and status.available_replicas
Item(name, value, available) ==
    [name |-> name, value |-> value, available |-> available]

\* the field of an item that get_current_pods reads
ItemField(item, resource_type, only_running) ==
    IF resource_type = S_deployment /\ only_running
    THEN item.available
    ELSE item.value

\* the loop without its break: the last item of the name decides
RECURSIVE ReadPodsLast(_, _, _, _)
ReadPodsLast(items, resource_type, name, only_running) ==
    IF items = <<>> THEN Some(0)
    ELSE IF items[Len(items)].name = name
    THEN ItemField(items[Len(items)], resource_type, only_running)
    ELSE ReadPodsLast(SubSeq(items, 1, Len(items) - 1), resource_type, name,
                      only_running)

\* current_pods after the loop over the listed items: 0 unless an item has
\* the name, else the field of the first such item, which may be None
RECURSIVE ReadPods(_, _, _, _)
ReadPods(items, resource_type, name, only_running) ==
    IF items = <<>> THEN Some(0)
    ELSE IF Head(items).name = name
    THEN ItemField(Head(items), resource_type, only_running)
    ELSE ReadPods(Tail(items), resource_type, name, only_running)

\* `if current_pods is None: current_pods = 0` and `return int(current_pods)`
CurrentPods(items, resource_type, name, only_running) ==
    LET v == ReadPods(items, resource_type, name, only_running)
    IN  IF v = Null THEN 0 ELSE v[1]

\* what list_namespaced_deployment / list_namespaced_job answer for the
\* cluster cl: the resources of the type in the namespace, in some order
Listing(cl, namespace, resource_type) ==
    LET rs == {r \in DOMAIN cl : r[1] = namespace /\ r[2] = resource_type}
        order == CHOOSE f \in [1..Cardinality(rs) -> rs] :
                     \A i, j \in DOMAIN f : i # j => f[i] # f[j]
    IN  [i \in 1..Cardinality(rs) |->
            Item(order[i][3], Some(cl[order[i]].replicas), cl[order[i]].available)]

\* get_current_pods for a managed resource type, on the cluster cl
get_current_pods(cl, namespace, resource_type, name, only_running) ==
    CurrentPods(Listing(cl, namespace, resource_type), resource_type, name,
                only_running)

ListApi(resource_type) ==
    IF resource_type = S_deployment THEN "list_namespaced_deployment"
    ELSE "list_namespaced_job"

\* a list call of a pass, with what get_current_pods read off its answer
ListCall(pass, key, ok, read) ==
    [pass |-> pass, api |-> ListApi(key[2]), res |-> key, ok |-> ok,
     read |-> read]

----------------------------------------------------------------------------
(* Autoscaler.scale_resource *)

\* the patch is issued whether or not the counts differ
ScaleResourceAlways(desired_pods, current_pods, resource_type, namespace, name) ==
    IF resource_type = S_job
    THEN <<[api |-> "patch_namespaced_job", field |-> "parallelism",
            value |-> desired_pods]>>
    ELSE <<[api |-> "patch_namespaced_deployment", field |-> "replicas",
            value |-> desired_pods]>>

\* the requests scale_resource sends to the cluster API
scale_resource(desired_pods, current_pods, resource_type, namespace, name) ==
    IF desired_pods = current_pods THEN <<>>
    ELSE IF resource_type = S_job
    THEN <<[api |-> "patch_namespaced_job", field |-> "parallelism",
            value |-> desired_pods]>>
    ELSE IF resource_type = S_deployment
    THEN <<[api |-> "patch_namespaced_deployment", field |-> "replicas",
            value |-> desired_pods]>>
    ELSE <<>>

\* no scale_resource call was made
NoScale == [called |-> FALSE]

\* a scale_resource call: its arguments, the number of cluster calls logged
\* when it was entered, and "None", "True" or "raised"
Scaled(desired_pods, current_pods, key, at, result) ==
    [called |-> TRUE, desired_pods |-> desired_pods,
     current_pods |-> current_pods, resource_type |-> key[2],
     namespace |-> key[1], name |-> key[3], at |-> at, result |-> result]

\* a patch call of a pass, with the current count scale_resource was given
PatchCall(pass, key, req, current_pods, ok) ==
    [pass |-> pass, api |-> req.api, res |-> key, field |-> req.field,
     value |-> req.value, current |-> current_pods, ok |-> ok]

\* the cluster API accepts a patch only for a resource that exists and a
\* count that is not negative; an accepted patch may still fail
PatchAccepted(cl, key, value) == key \in DOMAIN cl /\ value >= 0

\* a patch the cluster accepted sets spec.replicas / spec.parallelism
ApplyPatch(cl, key, value) == [cl EXCEPT ![key].replicas = value]

----------------------------------------------------------------------------
(* Autoscaler.scale_primary_resources: one fingerprint *)

RECURSIVE SumDesired(_, _, _)
SumDesired(keys, entries, current_pods) ==
    IF entries = <<>> THEN 0
    ELSE get_desired_pods(keys, Head(entries).prefix, Head(entries).keys_per_pod,
                          Head(entries).min_pods, Head(entries).max_pods,
                          current_pods)
         + SumDesired(keys, Tail(entries), current_pods)

\* the exception the loop over the entries ends with, "none" when it completes
RECURSIVE EntriesRaise(_, _)
EntriesRaise(keys, entries) ==
    IF entries = <<>> THEN "none"
    ELSE LET e == DesiredPodsRaises(keys, Head(entries).prefix,
                                    Head(entries).keys_per_pod)
         IN  IF e # "none" THEN e ELSE EntriesRaise(keys, Tail(entries))

\* the bounds of the first rule applied to the sum
PrimaryDesiredFirstRule(keys, entries, current_pods) ==
    clip_pod_count(SumDesired(keys, entries, current_pods),
                   entries[1].min_pods, entries[1].max_pods, current_pods)

\* the desired count of a fingerprint with at least one entry
PrimaryDesired(keys, entries, current_pods) ==
    clip_pod_count(SumDesired(keys, entries, current_pods),
                   MaxOf([i \in DOMAIN entries |-> entries[i].min_pods]),
                   MinOf([i \in DOMAIN entries |-> entries[i].max_pods]),
                   current_pods)

----------------------------------------------------------------------------
(* Autoscaler.tally_keys *)

\* re.match(k, key) for a pattern k of plain letters: key begins with k
Matches(k, key) == StartsWith(key, k)

\* the tallies are left as the last call left them
KeepTally(keys) == keys

\* `for k in self.redis_keys: self.redis_keys[k] = 0`
ResetTally(keys) == [k \in DOMAIN keys |-> 0]

\* every hash that has a status is counted
TallyKeyAnyStatus(keys, st, key) ==
    IF st[key].type = "hash" /\ st[key].status # Null
    THEN [k \in DOMAIN keys |-> IF Matches(k, key) THEN keys[k] + 1 ELSE keys[k]]
    ELSE keys

\* one iteration of the loop over scan_iter: the tallies after key is seen
TallyKey(keys, st, key) ==
    IF ~\E k \in DOMAIN keys : Matches(k, key) THEN keys
    ELSE IF st[key].type # "hash" THEN keys
    ELSE IF st[key].status # Null /\ st[key].status[1] \notin completed_statuses
    THEN [k \in DOMAIN keys |-> IF Matches(k, key) THEN keys[k] + 1 ELSE keys[k]]
    ELSE keys

RECURSIVE TallyScan(_, _, _)
TallyScan(keys, st, scan) ==
    IF scan = <<>> THEN keys
    ELSE TallyScan(TallyKey(keys, st, Head(scan)), st, Tail(scan))

\* the orders in which scan_iter may yield the keys of the store
ScanIter(st) ==
    {scan \in [1..Cardinality(DOMAIN st) -> DOMAIN st] :
        \A i, j \in DOMAIN scan : i # j => scan[i] # scan[j]}

\* one of the orders of ScanIter(st): the tally tally_keys leaves is the same
\* for each of them
OneScan(st) == CHOOSE scan \in ScanIter(st) : TRUE

\* self.redis_keys after tally_keys(), called with the tallies keys, on a
\* store st whose keys scan_iter yields in the order scan
tally_keys(keys, st, scan) == TallyScan(ResetTally(keys), st, scan)

----------------------------------------------------------------------------
(* Autoscaler.__init__ *)

DelimsNeverRejected(d_delim, p_delim) == FALSE

\* `if deployment_delim == param_delim: raise ValueError(...)`
DelimsRejected(d_delim, p_delim) == d_delim = p_delim

E_delims == "ValueError: delimiters must be different"
E_separator == "ValueError: empty separator"

\* the attributes __init__ sets
EngineAttrs == {"autoscaling_params", "secondary_autoscaling_params",
                "redis_keys", "reference_pods"}

Construct ==
    /\ pc = "new"
    /\ call' = "__init__"
    /\ IF DelimsRejected(deployment_delim, param_delim)
       THEN /\ pc' = "raised"
            /\ exc' = E_delims
            /\ UNCHANGED <<attrs, autoscaling_params,
                           secondary_autoscaling_params, redis_keys, reference_pods>>
       ELSE IF SplitRaises(deployment_delim, param_delim)
       THEN /\ pc' = "raised"
            /\ exc' = E_separator
            /\ UNCHANGED <<attrs, autoscaling_params,
                           secondary_autoscaling_params, redis_keys, reference_pods>>
       ELSE /\ pc' = "idle"
            /\ exc' = "none"
            /\ attrs' = EngineAttrs
            /\ autoscaling_params' = _get_primary_autoscaling_params(
                   RStrip(scaling_config), deployment_delim, param_delim)
            /\ secondary_autoscaling_params' = _get_secondary_autoscaling_params(
                   RStrip(secondary_scaling_config), deployment_delim, param_delim)
            /\ redis_keys' = [k \in TallyPrefixes |-> 0]
            /\ reference_pods' = <<>>
    /\ UNCHANGED <<scaling_config, secondary_scaling_config, deployment_delim,
                   param_delim, store, cluster, idx, calls, ret, fn, rc>>

----------------------------------------------------------------------------
(* The environment of the engine: the store and the cluster *)

\* the hashes of the store: <prefix>_<i>
KeyName(prefix, i) == prefix \o <<"_", DigitChars[i + 1]>>

EngineKeys == {KeyName(S_predict, i) : i \in 1..MaxKeys}

Hash(status) == [type |-> "hash", status |-> Some(status)]

\* the contents the store may have when a cycle begins: the first n hashes
\* are new, the others done
EngineStores ==
    {[k \in EngineKeys |->
        IF \E i \in 1..n : k = KeyName(S_predict, i) THEN Hash("new")
        ELSE Hash("done")] : n \in 0..MaxKeys}

\* the available replicas the reference deployment may have when a cycle begins
Availabilities(cl) == {Null} \cup {Some(n) : n \in 0..cl[RR].replicas}

----------------------------------------------------------------------------
(* Autoscaler.scale and the passes it runs *)

Constructed == attrs = EngineAttrs

\* scale() is called, with the store and the cluster in the state the
\* environment has brought them to: tally_keys(), then the primary pass begins
EnterScale ==
    /\ pc \in {"idle", "raised"}
    /\ Constructed
    /\ \E st \in EngineStores, av \in Availabilities(cluster) :
          /\ store' = st
          /\ cluster' = [cluster EXCEPT ![RR].available = av]
          /\ redis_keys' = tally_keys(redis_keys, st, OneScan(st))
    /\ call' = "scale"
    /\ pc' = "primary"
    /\ idx' = 1
    /\ calls' = <<>>
    /\ exc' = "none"
    /\ ret' = NoScale
    /\ UNCHANGED <<attrs, scaling_config, secondary_scaling_config,
                   deployment_delim, param_delim, autoscaling_params,
                   secondary_autoscaling_params, reference_pods, rc>>

CallScale == EnterScale /\ UNCHANGED fn

\* the end of scale_primary_resources ends scale() as well
PrimaryReturnsToCaller ==
    /\ idx' = 1
    /\ pc' = "idle"

\* the end of scale_primary_resources: scale() goes on to the secondary pass
PrimaryReturns ==
    /\ idx' = 1
    /\ pc' = IF call = "scale" THEN "secondary" ELSE "idle"

\* the error is logged and the loop goes on to the next fingerprint
PrimarySwallows(e, newCalls, r) ==
    /\ idx' = idx + 1
    /\ calls' = calls \o newCalls
    /\ ret' = r
    /\ UNCHANGED <<pc, exc, cluster>>

\* an exception leaves scale_primary_resources, and scale() with it
PrimaryRaises(e, newCalls, r) ==
    /\ pc' = "raised"
    /\ exc' = e
    /\ calls' = calls \o newCalls
    /\ ret' = r
    /\ UNCHANGED <<idx, cluster>>

\* one iteration of the loop of scale_primary_resources
PrimaryStep ==
    /\ pc = "primary"
    /\ idx \in DOMAIN autoscaling_params
    /\ LET key == autoscaling_params[idx].key
           entries == autoscaling_params[idx].entries
           current_pods == get_current_pods(cluster, key[1], key[2], key[3], FALSE)
           raised == EntriesRaise(redis_keys, entries)
           KeyList == ListCall("primary", key, TRUE, Some(current_pods))
       IN  IF key[2] \notin managed_resource_types
           THEN PrimaryRaises("ValueError", <<>>, NoScale)
           ELSE \E listOk \in BOOLEAN :
                IF ~listOk
                THEN PrimaryRaises("ApiException",
                         <<ListCall("primary", key, FALSE, Null)>>, NoScale)
                ELSE IF raised # "none"
                THEN PrimaryRaises(raised, <<KeyList>>, NoScale)
                ELSE IF entries = <<>>
                THEN /\ PrimaryReturns
                     /\ calls' = Append(calls, KeyList)
                     /\ ret' = NoScale
                     /\ UNCHANGED <<exc, cluster>>
                ELSE LET desired_pods == PrimaryDesired(redis_keys, entries,
                                                        current_pods)
                         reqs == scale_resource(desired_pods, current_pods,
                                                key[2], key[1], key[3])
                         Call(result) == Scaled(desired_pods, current_pods, key,
                                                Len(calls) + 1, result)
                     IN  IF reqs = <<>>
                         THEN /\ idx' = idx + 1
                              /\ ret' = Call("None")
                              /\ calls' = Append(calls, KeyList)
                              /\ UNCHANGED <<pc, exc, cluster>>
                         ELSE \E patchOk \in BOOLEAN :
                              /\ patchOk => PatchAccepted(cluster, key, reqs[1].value)
                              /\ IF patchOk
                                 THEN /\ idx' = idx + 1
                                      /\ ret' = Call("True")
                                      /\ cluster' = ApplyPatch(cluster, key,
                                                               reqs[1].value)
                                      /\ calls' = calls \o
                                           <<KeyList,
                                             PatchCall("primary", key, reqs[1], current_pods, TRUE)>>
                                      /\ UNCHANGED <<pc, exc>>
                                 ELSE PrimaryRaises("ApiException",
                                           <<KeyList,
                                             PatchCall("primary", key, reqs[1], current_pods, FALSE)>>,
                                           Call("raised"))
    /\ UNCHANGED <<call, attrs, scaling_config, secondary_scaling_config,
                   deployment_delim, param_delim, autoscaling_params,
                   secondary_autoscaling_params, redis_keys, reference_pods,
                   store, fn, rc>>

\* the loop of scale_primary_resources is exhausted
PrimaryDone ==
    /\ pc = "primary"
    /\ idx > Len(autoscaling_params)
    /\ PrimaryReturns
    /\ UNCHANGED <<call, attrs, exc, scaling_config, secondary_scaling_config,
                   deployment_delim, param_delim, autoscaling_params,
                   secondary_autoscaling_params, redis_keys, reference_pods,
                   store, cluster, calls, ret, fn, rc>>

----------------------------------------------------------------------------
(* Autoscaler.scale_secondary_resources *)

\* the try block at the head of the loop body: IndexError for fewer than nine
\* fields, ValueError for a numeric field int() rejects
SecondaryMalformed(entry) ==
    \/ Len(entry) < 9
    \/ \E f \in 7..9 : ~ParseInt(entry[f]).ok

SecondaryRule(entry) ==
    [resource_name |-> Strip(entry[1]),
     resource_type |-> Strip(entry[2]),
     resource_namespace |-> Strip(entry[3]),
     reference_resource_name |-> Strip(entry[4]),
     reference_resource_type |-> Strip(entry[5]),
     reference_resource_namespace |-> Strip(entry[6]),
     pods_per_other_pod |-> ParseInt(entry[7]).val,
     min_pods |-> ParseInt(entry[8]).val,
     max_pods |-> ParseInt(entry[9]).val]

\* the memory is replaced by one that holds name alone
ForgetOthers(rp, name, v) == [n \in {name} |-> v]

\* self.reference_pods[name] = v
SetReferencePods(rp, name, v) ==
    [n \in DOMAIN rp \cup {name} |-> IF n = name THEN v ELSE rp[n]]

\* `if resource_name not in self.reference_pods: self.reference_pods[...] = 0`
InitReferencePods(rp, name) ==
    IF name \in DOMAIN rp THEN rp ELSE SetReferencePods(rp, name, 0)

SecondaryRaises(e, newCalls, rp, r) ==
    /\ pc' = "raised"
    /\ exc' = e
    /\ calls' = calls \o newCalls
    /\ reference_pods' = rp
    /\ ret' = r
    /\ UNCHANGED <<idx, cluster>>

\* the body of the loop of scale_secondary_resources, for the entry at idx
EvaluateSecondary ==
    /\ pc = "secondary"
    /\ idx \in DOMAIN secondary_autoscaling_params
    /\ LET entry == secondary_autoscaling_params[idx]
       IN  IF SecondaryMalformed(entry)
           THEN /\ idx' = idx + 1
                /\ ret' = NoScale
                /\ UNCHANGED <<pc, exc, calls, reference_pods, cluster>>
           ELSE
           LET r == SecondaryRule(entry)
               key == <<r.resource_namespace, r.resource_type, r.resource_name>>
               ref == <<r.reference_resource_namespace, r.reference_resource_type,
                        r.reference_resource_name>>
               rp1 == InitReferencePods(reference_pods, r.resource_name)
               current_reference_pods ==
                   get_current_pods(cluster, ref[1], ref[2], ref[3], TRUE)
               new_reference_pods == current_reference_pods - rp1[r.resource_name]
               rp2 == SetReferencePods(rp1, r.resource_name, current_reference_pods)
               current_pods == get_current_pods(cluster, key[1], key[2], key[3], FALSE)
               desired_pods == get_secondary_desired_pods(
                                   new_reference_pods, r.pods_per_other_pod,
                                   r.min_pods, r.max_pods, current_pods)
               reqs == scale_resource(desired_pods, current_pods,
                                      key[2], key[1], key[3])
               RefList == ListCall("secondary", ref, TRUE,
                                   Some(current_reference_pods))
               KeyList == ListCall("secondary", key, TRUE, Some(current_pods))
               Call(result) == Scaled(desired_pods, current_pods, key,
                                      Len(calls) + 2, result)
           IN  IF ref[2] \notin managed_resource_types
               THEN SecondaryRaises("ValueError", <<>>, rp1, NoScale)
               ELSE \E refOk \in BOOLEAN :
                    IF ~refOk
                    THEN SecondaryRaises("ApiException",
                             <<ListCall("secondary", ref, FALSE, Null)>>, rp1, NoScale)
                    ELSE IF new_reference_pods <= 0
                    THEN /\ idx' = idx + 1
                         /\ reference_pods' = rp2
                         /\ calls' = Append(calls, RefList)
                         /\ ret' = NoScale
                         /\ UNCHANGED <<pc, exc, cluster>>
                    ELSE IF key[2] \notin managed_resource_types
                    THEN SecondaryRaises("ValueError", <<RefList>>, rp2, NoScale)
                    ELSE \E listOk \in BOOLEAN :
                         IF ~listOk
                         THEN SecondaryRaises("ApiException",
                                  <<RefList, ListCall("secondary", key, FALSE, Null)>>, rp2,
                                  NoScale)
                         ELSE IF reqs = <<>>
                         THEN /\ idx' = idx + 1
                              /\ reference_pods' = rp2
                              /\ ret' = Call("None")
                              /\ calls' = calls \o
                                   <<RefList, KeyList>>
                              /\ UNCHANGED <<pc, exc, cluster>>
                         ELSE \E patchOk \in BOOLEAN :
                              /\ patchOk => PatchAccepted(cluster, key, reqs[1].value)
                              /\ IF patchOk
                                 THEN /\ idx' = idx + 1
                                      /\ reference_pods' = rp2
                                      /\ ret' = Call("True")
                                      /\ cluster' = ApplyPatch(cluster, key,
                                                               reqs[1].value)
                                      /\ calls' = calls \o
                                           <<RefList, KeyList,
                                             PatchCall("secondary", key, reqs[1], current_pods, TRUE)>>
                                      /\ UNCHANGED <<pc, exc>>
                                 ELSE SecondaryRaises("ApiException",
                                          <<RefList, KeyList,
                                            PatchCall("secondary", key, reqs[1], current_pods, FALSE)>>,
                                          rp2, Call("raised"))
    /\ UNCHANGED <<call, attrs, scaling_config, secondary_scaling_config,
                   deployment_delim, param_delim, autoscaling_params,
                   secondary_autoscaling_params, redis_keys, store, rc>>

\* one iteration of the loop of scale_secondary_resources
SecondaryStep == EvaluateSecondary /\ UNCHANGED fn

\* the loop of scale_secondary_resources is exhausted: scale() returns
SecondaryDone ==
    /\ pc = "secondary"
    /\ idx > Len(secondary_autoscaling_params)
    /\ pc' = "idle"
    /\ idx' = 1
    /\ UNCHANGED <<call, attrs, exc, scaling_config, secondary_scaling_config,
                   deployment_delim, param_delim, autoscaling_params,
                   secondary_autoscaling_params, redis_keys, reference_pods,
                   store, cluster, calls, ret, fn, rc>>

----------------------------------------------------------------------------
(* Configurations *)

D_entry == <<";">>
D_param == <<"|">>

S_None == <<"N", "o", "n", "e">>
S_bad == <<"b", "a", "d">>
S_segment == <<"s", "e", "g", "m", "e", "n", "t">>

\* the fields of a primary entry
F(min, max, kpp, type, prefix, name) == <<min, max, kpp, N_ns, type, prefix, name>>

\* the fields of a secondary entry whose reference is the deployment r
G(name, type, ppr, min, max) ==
    <<name, type, N_ns, N_r, S_deployment, N_ns, ppr, min, max>>

\* the configuration string of a list of entries, each a list of fields
ConfigOf(entries, d_delim, p_delim) ==
    Join([i \in DOMAIN entries |-> Join(entries[i], p_delim)], d_delim)

RuleA == F(<<"0">>, <<"2">>, <<"1">>, S_deployment, S_predict, N_a)
RuleA2 == F(<<"1">>, <<"3">>, <<"1">>, S_deployment, S_train, N_a)
RuleB == F(<<"0">>, <<"2">>, <<"1">>, S_job, S_train, N_b)

PrimaryConfigs ==
    { <<RuleA>>,
      <<RuleA, RuleA2>>,
      <<RuleA, RuleB>>,
      \* a non-integer field in the first entry of fingerprint b
      <<F(<<"f", "0">>, <<"1">>, <<"1">>, S_job, S_train, N_b), RuleA>>,
      \* negative bounds
      <<F(<<"-", "1">>, <<"-", "1">>, <<"1">>, S_deployment, S_predict, N_a)>>,
      \* inverted bounds
      <<F(<<"2">>, <<"1">>, <<"1">>, S_deployment, S_predict, N_a)>>,
      \* zero keys per pod
      <<F(<<"0">>, <<"2">>, <<"0">>, S_deployment, S_predict, N_a), RuleB>>,
      \* a prefix the tally does not hold
      <<F(<<"0">>, <<"2">>, <<"1">>, S_deployment, S_segment, N_a), RuleB>>,
      \* an unmanaged resource type
      <<F(<<"0">>, <<"2">>, <<"1">>, S_bad, S_predict, N_a), RuleB>>,
      <<<<S_None>>>> }

SecondaryB == G(N_b, S_job, <<"1">>, <<"0">>, <<"3">>)
SecondaryA == G(N_a, S_deployment, <<"2">>, <<"1">>, <<"3">>)

SecondaryConfigs ==
    { <<<<S_None>>>>,
      <<SecondaryB>>,
      <<SecondaryA, SecondaryB>>,
      \* a negative bound
      <<G(N_b, S_job, <<"1">>, <<"0">>, <<"-", "1">>)>>,
      \* an unmanaged type of the scaled resource
      <<G(N_b, S_bad, <<"1">>, <<"0">>, <<"3">>)>>,
      \* an unmanaged type of the reference resource
      <<<<N_b, S_job, N_ns, N_r, S_bad, N_ns, <<"1">>, <<"0">>, <<"3">>>>>> }

\* the pairs of configurations the engine is started with
Setups ==
    {<<p, <<<<S_None>>>>>> : p \in PrimaryConfigs}
    \cup {<<<<<<S_None>>>>, s>> : s \in SecondaryConfigs}
    \cup {<<<<RuleA>>, <<SecondaryB>>>>}

----------------------------------------------------------------------------
(* The engine, from construction on *)

InitCluster ==
    {[r \in Resources |->
        IF r = RA THEN [replicas |-> a, available |-> Null]
        ELSE IF r = RB THEN [replicas |-> b, available |-> Null]
        ELSE [replicas |-> MaxRef, available |-> Null]] :
     a \in 0..MaxPods, b \in 0..1}

Init ==
    /\ pc = "new"
    /\ call = "none"
    /\ exc = "none"
    /\ \E su \in Setups :
          /\ scaling_config = ConfigOf(su[1], D_entry, D_param)
          /\ secondary_scaling_config = ConfigOf(su[2], D_entry, D_param)
    /\ deployment_delim = D_entry
    /\ param_delim = D_param
    /\ attrs = {}
    /\ autoscaling_params = <<>>
    /\ secondary_autoscaling_params = <<>>
    /\ redis_keys = <<>>
    /\ reference_pods = <<>>
    /\ store = [k \in EngineKeys |-> Hash("done")]
    /\ cluster \in InitCluster
    /\ idx = 1
    /\ calls = <<>>
    /\ ret = NoScale
    /\ fn = [op |-> "none"]
    /\ rc = [op |-> "none"]

Next ==
    \/ Construct
    \/ CallScale
    \/ PrimaryStep
    \/ PrimaryDone
    \/ SecondaryStep
    \/ SecondaryDone

Spec == Init /\ [][Next]_vars

----------------------------------------------------------------------------
(* Properties of the scaling passes, stated for the specification Spec *)

IsPatch(c) == c.api \in {"patch_namespaced_deployment", "patch_namespaced_job"}

IsList(c) == c.api \in {"list_namespaced_deployment", "list_namespaced_job"}

\* the successful list calls and the patch calls a pass logged for a resource
ListsOf(pass, key) ==
    {j \in DOMAIN calls :
        IsList(calls[j]) /\ calls[j].pass = pass /\ calls[j].res = key}

PatchesOf(pass, key) ==
    {j \in DOMAIN calls :
        IsPatch(calls[j]) /\ calls[j].pass = pass /\ calls[j].res = key}

\* the scale-down guard and the clamp as the specification words them
Guard(raw, current) == IF 0 < raw /\ raw < current THEN current ELSE raw

Clamp(raw, min, max) == Max2(min, Min2(max, raw))

\* C1: every patch of a cycle carries 0 or a value strictly greater than the
\* current replica count read for the resource in that cycle.
C1_PatchZeroOrAboveCurrent ==
    \A j \in DOMAIN calls :
        IsPatch(calls[j]) =>
            \/ calls[j].value = 0
            \/ calls[j].value > calls[j].current

\* the backlog of a prefix: the hashes of the store that begin with it and
\* whose status is present and not completed
Backlog(prefix) ==
    Cardinality({key \in DOMAIN store :
        /\ Matches(prefix, key)
        /\ store[key].type = "hash"
        /\ store[key].status # Null
        /\ store[key].status[1] \notin completed_statuses})

\* C4: for a Deployment fingerprint with a single rule whose current count
\* was read in the cycle, the primary pass issues exactly one patch, with
\* replicas = desired_replicas(tally[prefix], per_unit, min, max, current),
\* when that value differs from current, and no patch otherwise.
C4_SingleRulePatch ==
    \A i \in DOMAIN autoscaling_params :
        LET key == autoscaling_params[i].key
            entries == autoscaling_params[i].entries
        IN  (/\ call = "scale"
             /\ key[2] = S_deployment
             /\ Len(entries) = 1
             /\ entries[1].keys_per_pod > 0
             /\ \E j \in ListsOf("primary", key) : calls[j].ok)
            =>
            LET j == CHOOSE j \in ListsOf("primary", key) : calls[j].ok
                current == calls[j].read[1]
                desired == Guard(Clamp(Backlog(entries[1].prefix)
                                          \div entries[1].keys_per_pod,
                                       entries[1].min_pods, entries[1].max_pods),
                                 current)
            IN  IF desired = current
                THEN PatchesOf("primary", key) = {}
                ELSE /\ Cardinality(PatchesOf("primary", key)) = 1
                     /\ \A k \in PatchesOf("primary", key) :
                           /\ calls[k].field = "replicas"
                           /\ calls[k].value = desired

\* the cluster calls the scale_resource call of the last iteration made
ScaleCalls == SubSeq(calls, ret.at + 1, Len(calls))

\* C5: scale_resource issues no cluster call and returns None when desired
\* equals current; otherwise it issues exactly one patch, of spec.replicas
\* through the deployment API or of spec.parallelism through the job API,
\* carrying desired, and returns True exactly when that patch succeeded.
C5_ScaleResource ==
    ret.called =>
        IF ret.desired_pods = ret.current_pods
        THEN ScaleCalls = <<>> /\ ret.result = "None"
        ELSE /\ Len(ScaleCalls) = 1
             /\ IsPatch(ScaleCalls[1])
             /\ ScaleCalls[1].value = ret.desired_pods
             /\ ScaleCalls[1].res = <<ret.namespace, ret.resource_type, ret.name>>
             /\ ret.resource_type = S_deployment =>
                   /\ ScaleCalls[1].api = "patch_namespaced_deployment"
                   /\ ScaleCalls[1].field = "replicas"
             /\ ret.resource_type = S_job =>
                   /\ ScaleCalls[1].api = "patch_namespaced_job"
                   /\ ScaleCalls[1].field = "parallelism"
             /\ ret.resource_type \in managed_resource_types
             /\ ret.result = (IF ScaleCalls[1].ok THEN "True" ELSE "raised")

\* a job was patched and scale_resource returned True, and in the same pass
\* an earlier scale_resource call had nothing to do
C5_Witness ==
    /\ ret.called
    /\ ret.result = "True"
    /\ ret.resource_type = S_job
    /\ ret.desired_pods # ret.current_pods
    /\ Len(calls) > 2

\* C6: a cluster-API failure on one resource leaves every other configured
\* resource inspected in the same cycle.
C6_FailureDoesNotAbort ==
    (pc = "raised" /\ exc = "ApiException" /\ call = "scale") =>
        /\ \A i \in DOMAIN autoscaling_params :
              ListsOf("primary", autoscaling_params[i].key) # {}
        /\ \A i \in DOMAIN secondary_autoscaling_params :
              LET e == secondary_autoscaling_params[i]
              IN  ~SecondaryMalformed(e) =>
                     ListsOf("secondary",
                             <<SecondaryRule(e).reference_resource_namespace,
                               SecondaryRule(e).reference_resource_type,
                               SecondaryRule(e).reference_resource_name>>) # {}

----------------------------------------------------------------------------
(* The pod-count functions applied to inputs drawn from bounded sets *)

\* largest backlog of a queue prefix
MaxBacklog == 3

\* largest keys_per_pod of a rule
MaxPerUnit == 2

\* self.redis_keys with the given backlogs of predict and train
FnKeys(predict, train) ==
    [k \in TallyPrefixes |->
        IF k = S_predict THEN predict ELSE IF k = S_train THEN train ELSE 0]

\* a rule as _get_primary_autoscaling_params builds it
FnRule(min_pods, max_pods, keys_per_pod, prefix) ==
    [min_pods |-> min_pods, max_pods |-> max_pods,
     keys_per_pod |-> keys_per_pod, prefix |-> prefix]

\* the bounds a rule of the data model may have: 0 <= min <= max
FnBounds == {b \in (0..MaxPods) \X (0..MaxPods) : b[1] <= b[2]}

\* nothing of the engine is in use
NoEngine ==
    /\ call = "none"
    /\ exc = "none"
    /\ scaling_config = <<>>
    /\ secondary_scaling_config = <<>>
    /\ deployment_delim = D_entry
    /\ param_delim = D_param
    /\ attrs = {}
    /\ autoscaling_params = <<>>
    /\ secondary_autoscaling_params = <<>>
    /\ redis_keys = <<>>
    /\ reference_pods = <<>>
    /\ store = <<>>
    /\ cluster = <<>>
    /\ idx = 1
    /\ calls = <<>>
    /\ ret = NoScale

engineState == <<call, attrs, exc, scaling_config, secondary_scaling_config,
                 deployment_delim, param_delim, autoscaling_params,
                 secondary_autoscaling_params, redis_keys, reference_pods,
                 store, cluster, idx, calls, ret>>

InitFn ==
    /\ pc = "fn"
    /\ NoEngine
    /\ fn = [op |-> "none"]
    /\ rc = [op |-> "none"]

\* get_desired_pods(key, keys_per_pod, min_pods, max_pods, current_pods) with
\* self.redis_keys[key] = backlog
CallGetDesiredPods ==
    /\ pc = "fn"
    /\ fn.op = "none"
    /\ \E backlog \in 0..MaxBacklog, keys_per_pod \in 1..MaxPerUnit,
          min_pods \in 0..MaxPods, max_pods \in 0..MaxPods,
          current_pods \in 0..MaxPods :
          fn' = [op |-> "get_desired_pods",
                 backlog |-> backlog, keys_per_pod |-> keys_per_pod,
                 min_pods |-> min_pods, max_pods |-> max_pods,
                 current_pods |-> current_pods,
                 result |-> get_desired_pods(FnKeys(backlog, 0), S_predict,
                                             keys_per_pod, min_pods, max_pods,
                                             current_pods)]
    /\ UNCHANGED <<pc, rc>>
    /\ UNCHANGED engineState

\* the desired count scale_primary_resources computes for a fingerprint with
\* two rules, one on predict and one on train
CallPrimaryDesired ==
    /\ pc = "fn"
    /\ fn.op = "none"
    /\ \E b1 \in FnBounds, b2 \in FnBounds, keys_per_pod \in 1..MaxPerUnit,
          predict \in 0..MaxBacklog, train \in 0..MaxBacklog,
          current_pods \in 0..MaxPods :
          LET entries == <<FnRule(b1[1], b1[2], keys_per_pod, S_predict),
                           FnRule(b2[1], b2[2], 1, S_train)>>
          IN  fn' = [op |-> "scale_primary_resources",
                     entries |-> entries,
                     redis_keys |-> FnKeys(predict, train),
                     current_pods |-> current_pods,
                     result |-> PrimaryDesired(FnKeys(predict, train), entries,
                                               current_pods)]
    /\ UNCHANGED <<pc, rc>>
    /\ UNCHANGED engineState

\* longest listing the cluster API answers
MaxItems == 2

\* the items a listing may hold: a count that is None or 0..MaxPods, and
\* available replicas that are None or no more than the count
ListedItems ==
    {Item(name, Null, Null) : name \in {N_a, N_b}}
    \cup UNION {{Item(name, Some(v), av) :
                    name \in {N_a, N_b},
                    av \in {Null} \cup {Some(n) : n \in 0..v}} :
                 v \in 0..MaxPods}

Listings ==
    UNION {[1..n -> ListedItems] : n \in 0..MaxItems}

\* get_current_pods(namespace, resource_type, name, only_running) with the
\* cluster API answering the listing items
CallGetCurrentPods ==
    /\ pc = "fn"
    /\ fn.op = "none"
    /\ \E items \in Listings, resource_type \in managed_resource_types \cup {S_bad},
          only_running \in BOOLEAN :
          fn' = [op |-> "get_current_pods",
                 namespace |-> N_ns,
                 resource_type |-> resource_type,
                 name |-> N_a,
                 only_running |-> only_running,
                 items |-> items,
                 listed |-> resource_type \in managed_resource_types,
                 raised |-> IF resource_type \in managed_resource_types
                            THEN "none" ELSE "ValueError",
                 result |-> IF resource_type \in managed_resource_types
                            THEN CurrentPods(items, resource_type, N_a, only_running)
                            ELSE 0]
    /\ UNCHANGED <<pc, rc>>
    /\ UNCHANGED engineState

\* get_secondary_desired_pods(reference_pods, pods_per_reference_pod,
\* min_pods, max_pods, current_pods) on non-negative arguments
CallGetSecondaryDesiredPods ==
    /\ pc = "fn"
    /\ fn.op = "none"
    /\ \E new \in 0..MaxRef, per_ref \in 0..MaxPerUnit,
          min_pods \in 0..MaxPods, max_pods \in 0..MaxPods,
          current_pods \in 0..MaxPods :
          fn' = [op |-> "get_secondary_desired_pods",
                 reference_pods |-> new,
                 pods_per_reference_pod |-> per_ref,
                 min_pods |-> min_pods, max_pods |-> max_pods,
                 current_pods |-> current_pods,
                 result |-> get_secondary_desired_pods(new, per_ref, min_pods,
                                                       max_pods, current_pods)]
    /\ UNCHANGED <<pc, rc>>
    /\ UNCHANGED engineState

\* scale_primary_resources called twice for one fingerprint, of one rule on
\* predict or of two rules on predict and train, with the tally unchanged and
\* the cluster holding after the first call what that call patched: the
\* desired count and the requests of each call
CallPrimaryTwice ==
    /\ pc = "fn"
    /\ fn.op = "none"
    /\ \E b1 \in FnBounds, b2 \in FnBounds, rules \in 1..2,
          keys_per_pod \in 1..MaxPerUnit,
          predict \in 0..MaxBacklog, train \in 0..MaxBacklog,
          current_pods \in 0..MaxPods :
          LET both == <<FnRule(b1[1], b1[2], keys_per_pod, S_predict),
                        FnRule(b2[1], b2[2], 1, S_train)>>
              entries == SubSeq(both, 1, rules)
              first == PrimaryDesired(FnKeys(predict, train), entries,
                                      current_pods)
              second == PrimaryDesired(FnKeys(predict, train), entries, first)
          IN  fn' = [op |-> "scale_primary_resources twice",
                     entries |-> entries,
                     redis_keys |-> FnKeys(predict, train),
                     current_pods |-> current_pods,
                     first |-> first,
                     patched |-> scale_resource(first, current_pods,
                                                S_deployment, N_ns, N_a),
                     second |-> second,
                     again |-> scale_resource(second, first,
                                              S_deployment, N_ns, N_a)]
    /\ UNCHANGED <<pc, rc>>
    /\ UNCHANGED engineState

NextFn ==
    \/ CallGetDesiredPods
    \/ CallPrimaryDesired
    \/ CallGetCurrentPods
    \/ CallGetSecondaryDesiredPods
    \/ CallPrimaryTwice

SpecFn == InitFn /\ [][NextFn]_vars

\* C2: for backlog >= 0, per_unit > 0, 0 <= min <= max and current >= 0,
\* get_desired_pods returns c = max(min, min(max, backlog // per_unit)) when
\* c = 0 or c >= current and current when 0 < c < current; the result is in
\* [min, max] unless the guard forces it to current, and a clamped target of
\* 0 is returned as 0; the four worked examples give 0, 5, 3 and 2.
C2_GetDesiredPods ==
    /\ (fn.op = "get_desired_pods" /\ fn.min_pods <= fn.max_pods) =>
          LET c == Clamp(fn.backlog \div fn.keys_per_pod,
                         fn.min_pods, fn.max_pods)
          IN  /\ (c = 0 \/ c >= fn.current_pods) => fn.result = c
              /\ (0 < c /\ c < fn.current_pods) => fn.result = fn.current_pods
              /\ \/ fn.result \in fn.min_pods..fn.max_pods
                 \/ 0 < c /\ c < fn.current_pods /\ fn.result = fn.current_pods
              /\ c = 0 => fn.result = 0
    /\ get_desired_pods(FnKeys(0, 0), S_predict, 1, 0, 10, 5) = 0
    /\ get_desired_pods(FnKeys(2, 0), S_predict, 1, 0, 10, 5) = 5
    /\ get_desired_pods(FnKeys(100, 0), S_predict, 1, 0, 3, 0) = 3
    /\ get_desired_pods(FnKeys(0, 0), S_predict, 1, 2, 10, 0) = 2

\* the guard raised a clamped target to the current count
C2_Witness ==
    /\ fn.op = "get_desired_pods"
    /\ fn.min_pods <= fn.max_pods
    /\ 0 < fn.backlog \div fn.keys_per_pod
    /\ fn.backlog \div fn.keys_per_pod < fn.current_pods
    /\ fn.max_pods < fn.current_pods
    /\ fn.result = fn.current_pods

\* the sum of the per-rule desired counts of the two rules of fn
FnSum ==
    get_desired_pods(fn.redis_keys, fn.entries[1].prefix,
                     fn.entries[1].keys_per_pod, fn.entries[1].min_pods,
                     fn.entries[1].max_pods, fn.current_pods)
    + get_desired_pods(fn.redis_keys, fn.entries[2].prefix,
                       fn.entries[2].keys_per_pod, fn.entries[2].min_pods,
                       fn.entries[2].max_pods, fn.current_pods)

\* m, the maximum of the rules' min, and M, the minimum of the rules' max
FnMin == Max2(fn.entries[1].min_pods, fn.entries[2].min_pods)

FnMax == Min2(fn.entries[1].max_pods, fn.entries[2].max_pods)

\* C3 as stated: the final desired count of a fingerprint with several rules
\* is guard(max(m, min(M, S)), current) for every combination of rule bounds,
\* combinations with m > M included.
C3_AsStated ==
    fn.op = "scale_primary_resources" =>
        fn.result = Guard(Clamp(FnSum, FnMin, FnMax), fn.current_pods)

\* C3, amended: the final desired count is guard(c, current) with c = M when
\* S > M, else m when S < m, else S; this is guard(max(m, min(M, S)), current)
\* whenever m <= M, and the rules min=[0,1], max=[5,2] are clamped to the
\* effective bounds min=1, max=2.
C3_CombinedBounds ==
    /\ fn.op = "scale_primary_resources" =>
          LET c == IF FnSum > FnMax THEN FnMax
                   ELSE IF FnSum < FnMin THEN FnMin
                   ELSE FnSum
          IN  /\ fn.result = Guard(c, fn.current_pods)
              /\ FnMin <= FnMax =>
                    fn.result = Guard(Clamp(FnSum, FnMin, FnMax), fn.current_pods)
    /\ \A predict \in 0..5, train \in 0..2 :
          LET entries == <<FnRule(0, 5, 1, S_predict), FnRule(1, 2, 1, S_train)>>
              S == SumDesired(FnKeys(predict, train), entries, 0)
          IN  PrimaryDesired(FnKeys(predict, train), entries, 0) = Clamp(S, 1, 2)

\* two rules whose combined bounds are inverted, and a sum above both
C3_Witness ==
    /\ fn.op = "scale_primary_resources"
    /\ FnMin > FnMax
    /\ FnSum > FnMin
    /\ fn.result = FnMax

----------------------------------------------------------------------------
(* Construction from arbitrary delimiters and rule strings, followed by     *)
(* direct calls of scale_primary_resources                                  *)

\* the delimiters the engine may be constructed with
Delims == {<<";">>, <<"|">>, <<>>}

\* entries a rule string may hold
E_long == Append(RuleB, <<"x">>)
E_short == SubSeq(RuleA, 1, 6)
E_badint == F(<<"f", "0">>, <<"1">>, <<"1">>, S_job, S_train, N_b)
E_badtype == F(<<"x">>, <<"1">>, <<"1">>, S_bad, S_predict, N_a)
E_padded == F(<<" ", "0">>, <<"2", " ">>, <<"1">>, <<" ">> \o S_deployment,
              S_predict \o <<" ">>, N_a \o <<"\n">>)

EntryPool ==
    {RuleA, RuleA2, RuleB, E_long, E_short, E_badint, E_badtype, E_padded}

\* longest rule string, in entries
MaxEntries == 2

ParseConfigs ==
    UNION {[1..n -> EntryPool] : n \in 1..MaxEntries}

InitParse ==
    /\ pc = "new"
    /\ call = "none"
    /\ exc = "none"
    /\ \E c \in ParseConfigs : scaling_config = ConfigOf(c, D_entry, D_param)
    /\ secondary_scaling_config = S_None
    /\ deployment_delim \in Delims
    /\ param_delim \in Delims
    /\ attrs = {}
    /\ autoscaling_params = <<>>
    /\ secondary_autoscaling_params = <<>>
    /\ redis_keys = <<>>
    /\ reference_pods = <<>>
    /\ store = [k \in EngineKeys |-> Hash("done")]
    /\ cluster = [r \in Resources |-> [replicas |-> 1, available |-> Null]]
    /\ idx = 1
    /\ calls = <<>>
    /\ ret = NoScale
    /\ fn = [op |-> "none"]
    /\ rc = [op |-> "none"]

\* scale_primary_resources() is called on the constructed engine
CallScalePrimary ==
    /\ pc \in {"idle", "raised"}
    /\ Constructed
    /\ call' = "scale_primary_resources"
    /\ pc' = "primary"
    /\ idx' = 1
    /\ calls' = <<>>
    /\ exc' = "none"
    /\ ret' = NoScale
    /\ UNCHANGED <<attrs, scaling_config, secondary_scaling_config,
                   deployment_delim, param_delim, autoscaling_params,
                   secondary_autoscaling_params, redis_keys, reference_pods,
                   store, cluster, fn, rc>>

NextParse == Construct \/ CallScalePrimary \/ PrimaryStep \/ PrimaryDone

SpecParse == InitParse /\ [][NextParse]_vars

\* a scale_primary_resources call has ended, by returning or by raising
PrimaryEnded ==
    /\ call = "scale_primary_resources"
    /\ pc \in {"idle", "raised"}

\* C7: whatever malformed entries the configuration holds, every fingerprint
\* the engine holds after construction has at least one rule, and
\* scale_primary_resources evaluates every fingerprint that has a rule, unless
\* the cluster API fails, without raising an error of its own and without
\* stopping early.
C7_MalformedNoEffect ==
    /\ Constructed =>
          \A i \in DOMAIN autoscaling_params :
              autoscaling_params[i].entries # <<>>
    /\ (PrimaryEnded /\ exc # "ApiException") =>
          /\ pc = "idle"
          /\ \A i \in DOMAIN autoscaling_params :
                autoscaling_params[i].entries # <<>> =>
                    ListsOf("primary", autoscaling_params[i].key) # {}

\* an entry with exactly seven fields whose three numeric fields are integers
WellFormed(entry) ==
    /\ Len(entry) = 7
    /\ \A f \in 1..3 : ParseInt(entry[f]).ok

\* the fingerprint an entry names
EntryKey(entry) == <<Strip(entry[4]), Strip(entry[5]), Strip(entry[7])>>

\* the rules of the well-formed entries of raw that name fingerprint key
RulesFor(raw, key) ==
    LET keep(e) == WellFormed(e) /\ EntryKey(e) = key
        kept == SelectSeq(raw, keep)
    IN  [i \in DOMAIN kept |-> RuleOf(kept[i])]

\* C8: parsing a rule string yields exactly the rules of its well-formed
\* entries, and after parsing a string of malformed entries only,
\* scale_primary_resources neither raises nor patches.
C8_ParseKeepsWellFormed ==
    Constructed =>
        LET raw == RawParams(RStrip(scaling_config), deployment_delim, param_delim)
            good == {i \in DOMAIN raw : WellFormed(raw[i])}
        IN  /\ {autoscaling_params[i].key : i \in DOMAIN autoscaling_params}
                 = {EntryKey(raw[i]) : i \in good}
            /\ \A i \in DOMAIN autoscaling_params :
                  autoscaling_params[i].entries
                      = RulesFor(raw, autoscaling_params[i].key)
            /\ (good = {} /\ PrimaryEnded) =>
                  /\ pc = "idle"
                  /\ \A j \in DOMAIN calls : ~IsPatch(calls[j])

\* C9: construction with entry_delimiter = field_delimiter fails at once with
\* the delimiter ValueError, before any rule is parsed and whatever the rule
\* strings hold; with distinct delimiters it never fails with that error.
C9_EqualDelimsRejected ==
    /\ deployment_delim = param_delim =>
          /\ pc \in {"new", "raised"}
          /\ pc = "raised" => exc = E_delims
          /\ attrs = {}
          /\ autoscaling_params = <<>>
          /\ secondary_autoscaling_params = <<>>
    /\ deployment_delim # param_delim => exc # E_delims

\* construction was refused for a rule string that holds a well-formed entry
C9_Witness ==
    /\ call = "__init__"
    /\ pc = "raised"
    /\ exc = E_delims
    /\ deployment_delim = D_entry
    /\ param_delim = D_entry
    /\ scaling_config = ConfigOf(<<RuleA>>, D_entry, D_param)

----------------------------------------------------------------------------
(* RedisClient.__getattr__ and the wrapper it returns *)

\* largest backoff the client is constructed with, in seconds
MaxBackoff == 1

\* the commands of REDIS_READONLY_COMMANDS the model calls
REDIS_READONLY_COMMANDS == {"type", "hget", "lrange"}

\* an argument of a call: a str or an int, with its text
StrArg(v) == [t |-> "str", v |-> v]
IntArg(v) == [t |-> "int", v |-> v]

\* the calls made through the client: a command and its positional arguments
RedisCalls ==
    { <<"type", <<StrArg("predict_1")>> >>,
      <<"hget", <<StrArg("predict_1"), StrArg("status")>> >>,
      <<"hset", <<StrArg("predict_1"), StrArg("status"), StrArg("done")>> >>,
      <<"expire", <<StrArg("predict_1"), IntArg("10")>> >>,
      <<"lrange", <<StrArg("predict"), IntArg("0"), IntArg("-1")>> >>,
      <<"unknown_function", <<>> >> }

\* the commands among those of RedisCalls that redis.StrictRedis provides
StrictRedisCommands == {"type", "hget", "hset", "expire", "lrange"}

\* every name is an attribute of the connection
ProvidesAny(name) == TRUE

\* `getattr(redis_client, name)` finds the attribute
Provides(name) == name \in StrictRedisCommands

\* the errors the store may answer a command with before it answers it: a
\* connection error, a response error, the response error of a read-only
\* replica (redis.exceptions.ReadOnlyError) and the response error of a busy
\* script (ResponseError('BUSY ...'))
FaultKinds == {"ConnectionError", "ResponseError", "ReadOnlyError", "BusyResponseError"}

Faults == UNION {[1..n -> FaultKinds] : n \in 0..MaxFailures}

\* ' '.join(values) raises TypeError unless every value is a str
JoinRaises(values) == \E i \in DOMAIN values : values[i].t # "str"

----------------------------------------------------------------------------
(* RedisClient.__init__ and _update_masters_and_slaves *)

\* largest number of master sets the sentinel reports
MaxMasters == 2

\* largest number of replicas the sentinel reports for a master
MaxReplicas == 2

\* largest number of _update_masters_and_slaves calls on one client
MaxRefresh == 2

\* a redis.StrictRedis object: the address it was built for, and the
\* _update_masters_and_slaves call (gen) and the position in it (n) that
\* built it, which tell one object from another of the same address
Endpoint(addr, gen, n) == [addr |-> addr, gen |-> gen, n |-> n]

\* self._sentinel, built by __init__ from host and port
Sentinel == Endpoint(<<"sentinel", 0, 0>>, 0, 0)

\* what the sentinel reports for master set i with k replicas
MasterSet(i, k) ==
    [addr |-> <<"master", i, 0>>,
     slaves |-> [j \in 1..k |-> <<"slave", i, j>>]]

\* the answers of sentinel_masters() and sentinel_slaves(): the master sets in
\* the order the dict yields them
Reports ==
    UNION {{[i \in 1..m |-> MasterSet(i, ks[i])] : ks \in [1..m -> 0..MaxReplicas]} :
           m \in 0..MaxMasters}

\* the calls of _update_masters_and_slaves that may raise, in the order they
\* are made: sentinel_masters() twice, then for each master set
\* _get_redis_client, sentinel_slaves and a _get_redis_client per replica
RECURSIVE RefreshSteps(_)
RefreshSteps(report) ==
    IF report = <<>> THEN 2
    ELSE 2 + Len(Head(report).slaves) + RefreshSteps(Tail(report))

\* where a call of _update_masters_and_slaves fails (at = 0: nowhere) and how
Fails(report) ==
    {[at |-> 0, err |-> "none"]}
    \cup {[at |-> a, err |-> e] :
            a \in 1..RefreshSteps(report),
            e \in {"ResponseError", "ConnectionError"}}

\* the body of the loop over the master sets, from the set Head(sets) on; st
\* holds _redis_master and _redis_slaves, step the calls made so far
RECURSIVE RefreshSets(_, _, _, _, _, _)
RefreshSets(sets, st, step, fail, gen, n) ==
    IF sets = <<>> THEN [master |-> st.master, slaves |-> st.slaves, raised |-> "none"]
    ELSE LET set == Head(sets)
             cost == 2 + Len(set.slaves)
         IN  IF fail.at \in (step + 1)..(step + cost)
             THEN [master |-> st.master, slaves |-> st.slaves, raised |-> fail.err]
             ELSE RefreshSets(Tail(sets),
                      [master |-> Endpoint(set.addr, gen, n + 1),
                       slaves |-> [j \in DOMAIN set.slaves |->
                                      Endpoint(set.slaves[j], gen, n + 1 + j)]],
                      step + cost, fail, gen, n + cost - 1)

\* `except redis.exceptions.ResponseError`
RefreshCatches(err) == err = "ResponseError"

\* the sentinel endpoint is kept as the primary
UpdateKeepsSentinel(c, report, fail) ==
    [master |-> c.sentinel, slaves |-> <<c.sentinel>>, updates |-> c.updates + 1,
     raised |-> "none", logged |-> FALSE]

\* _update_masters_and_slaves on a client with attributes c: the attributes
\* it leaves, the exception that leaves it, and whether a warning was logged
_update_masters_and_slaves(c, report, fail) ==
    LET r == IF fail.at \in {1, 2}
             THEN [master |-> c.master, slaves |-> c.slaves, raised |-> fail.err]
             ELSE RefreshSets(report, [master |-> c.master, slaves |-> c.slaves],
                              2, fail, c.updates + 1, 0)
        caught == r.raised # "none" /\ RefreshCatches(r.raised)
    IN  [master |-> r.master, slaves |-> r.slaves, updates |-> c.updates + 1,
         raised |-> IF caught THEN "none" ELSE r.raised, logged |-> caught]

\* the attributes of a client
Client(r) ==
    [backoff |-> r.backoff, sentinel |-> r.sentinel, master |-> r.master,
     slaves |-> r.slaves, updates |-> r.updates]

\* the record of a finished _update_masters_and_slaves call on client c
Refreshed(c, via, report, fail) ==
    LET u == _update_masters_and_slaves(c, report, fail)
    IN  [op |-> IF u.raised = "none" THEN "refreshed" ELSE "refresh_raised",
         via |-> via, report |-> report, fail |-> fail,
         before |-> [master |-> c.master, slaves |-> c.slaves],
         raised |-> u.raised, logged |-> u.logged,
         backoff |-> c.backoff, sentinel |-> c.sentinel,
         master |-> u.master, slaves |-> u.slaves, updates |-> u.updates]

\* the caller holds the client and has no call in progress
Ready(r) == r.op = "ready"

InitRedis ==
    /\ pc = "redis"
    /\ NoEngine
    /\ fn = [op |-> "none"]
    /\ \E backoff \in 0..MaxBackoff :
          rc = [op |-> "new", backoff |-> backoff]

\* RedisClient(host, port, backoff): the sentinel endpoint is the primary and
\* the only replica until _update_masters_and_slaves() has resolved others
RedisConstruct ==
    /\ pc = "redis"
    /\ rc.op = "new"
    /\ \E report \in Reports :
       \E fail \in Fails(report) :
          rc' = Refreshed([backoff |-> rc.backoff, sentinel |-> Sentinel,
                           master |-> Sentinel, slaves |-> <<Sentinel>>,
                           updates |-> 0],
                          "__init__", report, fail)
    /\ UNCHANGED <<pc, fn>>
    /\ UNCHANGED engineState

\* client._update_masters_and_slaves() called on a constructed client
RedisRefresh ==
    /\ pc = "redis"
    /\ Ready(rc)
    /\ rc.updates < MaxRefresh
    /\ \E report \in Reports :
       \E fail \in Fails(report) :
          rc' = Refreshed(Client(rc), "_update_masters_and_slaves", report, fail)
    /\ UNCHANGED <<pc, fn>>
    /\ UNCHANGED engineState

\* the master is chosen for every command
DispatchToMaster(name, c) == {c.master}

\* the connections __getattr__ may pick for command name: random.choice of
\* the replicas for a read-only command, the master for any other; the empty
\* set when random.choice raises IndexError for an empty list
Dispatch(name, c) ==
    IF name \in REDIS_READONLY_COMMANDS
    THEN {c.slaves[i] : i \in DOMAIN c.slaves}
    ELSE {c.master}

\* __getattr__ raised before it returned a wrapper: nothing was invoked on a
\* connection and nothing slept
GetAttrRaised(name, err, c) ==
    [op |-> "getattr_raised", name |-> name, raised |-> err,
     invoked |-> <<>>, slept |-> <<>>] @@ c

\* client.<name>(*args): __getattr__ picks the connection and the wrapper is
\* entered, with the store about to answer the errors of faults and then a value
RedisCall ==
    /\ pc = "redis"
    /\ Ready(rc)
    /\ \E c \in RedisCalls :
          IF Dispatch(c[1], Client(rc)) = {}
          THEN rc' = GetAttrRaised(c[1], "IndexError", Client(rc))
          ELSE IF ~Provides(c[1])
          THEN rc' = GetAttrRaised(c[1], "AttributeError", Client(rc))
          ELSE \E client \in Dispatch(c[1], Client(rc)), faults \in Faults :
                  rc' = [op |-> "calling",
                         name |-> c[1],
                         args |-> c[2],
                         values |-> c[2],
                         client |-> client,
                         faults |-> faults,
                         pending |-> faults,
                         invoked |-> <<>>,
                         slept |-> <<>>,
                         updates0 |-> rc.updates,
                         raised |-> "none"] @@ Client(rc)
    /\ UNCHANGED <<pc, fn>>
    /\ UNCHANGED engineState

\* one iteration of the `while True` loop of the wrapper
RedisAttempt ==
    /\ pc = "redis"
    /\ rc.op = "calling"
    /\ LET invoked == Append(rc.invoked, <<rc.name, rc.args>>)
       IN  IF rc.pending = <<>>
           THEN rc' = [rc EXCEPT !.op = "returned", !.invoked = invoked]
           ELSE IF JoinRaises(rc.values)
           THEN rc' = [rc EXCEPT !.op = "raised", !.invoked = invoked,
                                 !.pending = Tail(@), !.raised = "TypeError"]
           ELSE IF Head(rc.pending) = "ConnectionError"
           THEN rc' = [rc EXCEPT !.invoked = invoked, !.pending = Tail(@),
                                 !.slept = Append(@, rc.backoff)]
           ELSE rc' = [rc EXCEPT !.op = "raised", !.invoked = invoked,
                                 !.pending = Tail(@), !.raised = Head(rc.pending)]
    /\ UNCHANGED <<pc, fn>>
    /\ UNCHANGED engineState

\* client.<name> alone: __getattr__ picks the connection and returns the wrapper
RedisGetAttr ==
    /\ pc = "redis"
    /\ Ready(rc)
    /\ \E c \in RedisCalls :
          IF Dispatch(c[1], Client(rc)) = {}
          THEN rc' = GetAttrRaised(c[1], "IndexError", Client(rc))
          ELSE IF ~Provides(c[1])
          THEN rc' = GetAttrRaised(c[1], "AttributeError", Client(rc))
          ELSE \E client \in Dispatch(c[1], Client(rc)) :
                  rc' = [op |-> "dispatched", name |-> c[1],
                         client |-> client] @@ Client(rc)
    /\ UNCHANGED <<pc, fn>>
    /\ UNCHANGED engineState

\* the caller has the outcome of its last call on the client; only the
\* attributes of the client remain
RedisSettle ==
    /\ pc = "redis"
    /\ \/ rc.op \in {"refreshed", "returned", "raised", "getattr_raised", "dispatched"}
       \/ rc.op = "refresh_raised" /\ rc.via = "_update_masters_and_slaves"
    /\ rc' = [op |-> "ready"] @@ Client(rc)
    /\ UNCHANGED <<pc, fn>>
    /\ UNCHANGED engineState

\* calls through the wrapper on a constructed client
NextRedis == RedisConstruct \/ RedisSettle \/ RedisCall \/ RedisAttempt

SpecRedis == InitRedis /\ [][NextRedis]_vars

\* topology resolution and dispatch on a constructed client
NextTopology == RedisConstruct \/ RedisSettle \/ RedisRefresh \/ RedisGetAttr

SpecTopology == InitRedis /\ [][NextTopology]_vars

\* C10: a call through the client that fails with a connection error exactly
\* N times and then succeeds returns the result after N + 1 invocations of
\* the same operation with the same arguments, with sleep invoked exactly N
\* times, each time with the configured backoff.
C10_RetryUntilSuccess ==
    (/\ rc.op \in {"returned", "raised"}
     /\ \A i \in DOMAIN rc.faults : rc.faults[i] = "ConnectionError")
    =>
    /\ rc.op = "returned"
    /\ rc.invoked = [i \in 1..(Len(rc.faults) + 1) |-> <<rc.name, rc.args>>]
    /\ rc.slept = [i \in 1..Len(rc.faults) |-> rc.backoff]

\* a call through the wrapper has ended, by returning or by raising
CallEnded == rc.op \in {"returned", "raised"}

\* C11: a call made through the client never surfaces a connection error:
\* while the store answers with connection errors the call keeps retrying,
\* and once the store answers the call returns, so a call ends by raising
\* only when the store answered with some other error.
C11_ConnectionErrorNeverSurfaces ==
    rc.op = "raised" =>
        /\ rc.raised # "ConnectionError"
        /\ \E i \in DOMAIN rc.faults : rc.faults[i] # "ConnectionError"

\* C12: a call that fails with an error other than a connection error or a
\* read-only error propagates that error on the first failure, with no sleep
\* and no retry; a response error reaches the caller as a response error.
C12_OtherErrorsPropagate ==
    (/\ CallEnded
     /\ rc.faults # <<>>
     /\ rc.faults[1] \in {"ResponseError", "BusyResponseError"})
    =>
    /\ rc.op = "raised"
    /\ rc.raised = rc.faults[1]
    /\ Len(rc.invoked) = 1
    /\ rc.slept = <<>>

\* C13: a call that fails with a read-only error is not surfaced: the client
\* resets its connection, sleeps the backoff and retries the same call until
\* it succeeds.
C13_ReadOnlyRetried ==
    (/\ CallEnded
     /\ \A i \in DOMAIN rc.faults : rc.faults[i] = "ReadOnlyError")
    =>
    /\ rc.op = "returned"
    /\ rc.invoked = [i \in 1..(Len(rc.faults) + 1) |-> <<rc.name, rc.args>>]
    /\ rc.slept = [i \in 1..Len(rc.faults) |-> rc.backoff]

\* C14: a call that fails once with the response error of a busy script and
\* then succeeds returns the result, with sleep invoked exactly once with the
\* backoff of the client.
C14_BusyRetriedOnce ==
    (CallEnded /\ rc.faults = <<"BusyResponseError">>)
    =>
    /\ rc.op = "returned"
    /\ rc.slept = <<rc.backoff>>

\* C15: when a call fails with a connection error, the client calls
\* _update_masters_and_slaves exactly once per failed attempt before the call
\* is retried and returns its result.
C15_RefreshPerFailedAttempt ==
    rc.op = "returned" =>
        rc.updates = rc.updates0 + Len(rc.faults)

----------------------------------------------------------------------------
(* Properties of dispatch and topology resolution, stated for SpecTopology *)

\* C16: in every reachable topology state, a command of the read-only set is
\* dispatched to one of the replica endpoints the client holds, and every
\* other command to the primary endpoint the client holds.
C16_Dispatch ==
    rc.op = "dispatched" =>
        IF rc.name \in REDIS_READONLY_COMMANDS
        THEN \E i \in DOMAIN rc.slaves : rc.client = rc.slaves[i]
        ELSE rc.client = rc.master

\* a read-only command went to the second replica of a primary resolved by
\* the second _update_masters_and_slaves call
C16_Witness ==
    /\ rc.op = "dispatched"
    /\ rc.name \in REDIS_READONLY_COMMANDS
    /\ rc.updates = 2
    /\ rc.master.gen = 2
    /\ Len(rc.slaves) = 2
    /\ rc.client = rc.slaves[2]
    /\ rc.client # rc.master

\* C17: a read operation can be dispatched in every reachable topology
\* state: after a resolution that reported a primary with zero replicas a
\* read operation is still served and does not fail inside the client.
C17_ReadAlwaysDispatched ==
    ~(rc.op = "getattr_raised" /\ rc.name \in REDIS_READONLY_COMMANDS)

\* a call of _update_masters_and_slaves has ended, by returning or by raising
RefreshEnded == rc.op \in {"refreshed", "refresh_raised"}

\* C18: _update_masters_and_slaves never raises, whatever error the topology
\* query hits and wherever, so constructing the client never fails because
\* the topology cannot be queried.
C18_RefreshNeverRaises ==
    RefreshEnded => (rc.op = "refreshed" /\ rc.raised = "none")

\* C19: when _update_masters_and_slaves fails part-way, for any number of
\* master sets and a failure at any step, the primary and the replicas after
\* the call are those held before it; before any successful resolution both
\* are the endpoint the client was constructed with.
C19_FailedRefreshKeepsTopology ==
    (RefreshEnded /\ rc.fail.at # 0) =>
        /\ rc.master = rc.before.master
        /\ rc.slaves = rc.before.slaves
        /\ rc.via = "__init__" =>
              (rc.master = rc.sentinel /\ rc.slaves = <<rc.sentinel>>)

\* the endpoints the client held before the last _update_masters_and_slaves
HeldBefore == {rc.sentinel, rc.before.master}
              \cup {rc.before.slaves[i] : i \in DOMAIN rc.before.slaves}

\* C20: after a successful topology resolution the primary is a new endpoint
\* built from the address the sentinel reported for the master (the last
\* master set reported), not the sentinel endpoint, and the replicas are
\* exactly one new endpoint per replica the sentinel reported for that
\* master, none of them the sentinel endpoint.
C20_ResolvedTopology ==
    (rc.op = "refreshed" /\ rc.fail.at = 0 /\ rc.report # <<>>) =>
        LET set == rc.report[Len(rc.report)]
        IN  /\ rc.master.addr = set.addr
            /\ rc.master \notin HeldBefore
            /\ Len(rc.slaves) = Len(set.slaves)
            /\ \A j \in DOMAIN rc.slaves :
                  /\ rc.slaves[j].addr = set.slaves[j]
                  /\ rc.slaves[j] \notin HeldBefore
                  /\ rc.slaves[j] # rc.master
                  /\ \A k \in DOMAIN rc.slaves : k # j => rc.slaves[k] # rc.slaves[j]

\* a second resolution succeeded, on a report of two master sets of which
\* the last has two replicas
C20_Witness ==
    /\ rc.op = "refreshed"
    /\ rc.via = "_update_masters_and_slaves"
    /\ rc.fail.at = 0
    /\ Len(rc.report) = 2
    /\ Len(rc.slaves) = 2
    /\ rc.before.master # rc.sentinel
    /\ rc.master.addr = <<"master", 2, 0>>

----------------------------------------------------------------------------
(* Operation names the connection does not provide, stated for SpecRedis *)

\* C21: requesting an operation name the underlying store client does not
\* provide propagates an AttributeError to the caller out of __getattr__:
\* nothing is invoked on a connection, nothing sleeps, nothing is retried.
C21_UnknownOperation ==
    (/\ rc.op \in {"getattr_raised", "calling", "returned", "raised"}
     /\ rc.name \notin StrictRedisCommands)
    =>
    /\ rc.op = "getattr_raised"
    /\ rc.raised = "AttributeError"
    /\ rc.invoked = <<>>
    /\ rc.slept = <<>>

\* unknown_function was requested of a client whose primary has been resolved
C21_Witness ==
    /\ rc.op = "getattr_raised"
    /\ rc.name = "unknown_function"
    /\ rc.raised = "AttributeError"
    /\ rc.master # rc.sentinel

----------------------------------------------------------------------------
(* tally_keys called on a constructed engine, the store changing in between *)

\* largest number of keys the store holds when it is scanned
MaxStoreKeys == 2

S_malformedKey == <<"m", "a", "l", "f", "o", "r", "m", "e", "d", "K", "e", "y">>

\* the keys the store may hold
TallyKeyPool ==
    {KeyName(S_predict, 1), KeyName(S_predict, 2), KeyName(S_train, 1),
     S_malformedKey}

\* what a key may hold: a hash whose status is new, done, failed or absent,
\* or a value that is not a hash
StoreValues ==
    {Hash("new"), Hash("done"), Hash("failed"),
     [type |-> "hash", status |-> Null],
     [type |-> "string", status |-> Null]}

\* the contents the store may have when it is scanned
TallyStores ==
    UNION {[ks -> StoreValues] :
             ks \in {x \in SUBSET TallyKeyPool : Cardinality(x) <= MaxStoreKeys}}

InitTally ==
    /\ pc = "new"
    /\ call = "none"
    /\ exc = "none"
    /\ scaling_config = S_None
    /\ secondary_scaling_config = S_None
    /\ deployment_delim = D_entry
    /\ param_delim = D_param
    /\ attrs = {}
    /\ autoscaling_params = <<>>
    /\ secondary_autoscaling_params = <<>>
    /\ redis_keys = <<>>
    /\ reference_pods = <<>>
    /\ store = <<>>
    /\ cluster = <<>>
    /\ idx = 1
    /\ calls = <<>>
    /\ ret = NoScale
    /\ fn = [op |-> "none"]
    /\ rc = [op |-> "none"]

\* tally_keys() is called on the constructed engine, the store holding
\* whatever it holds by then; fn notes whether a tally fell below the value
\* the call found
CallTallyKeys ==
    /\ pc = "idle"
    /\ Constructed
    /\ \E st \in TallyStores :
       \E scan \in ScanIter(st) :
          /\ store' = st
          /\ redis_keys' = tally_keys(redis_keys, st, scan)
          /\ fn' = [op |-> "tally_keys",
                    fell |-> \E k \in DOMAIN redis_keys :
                                 redis_keys'[k] < redis_keys[k]]
    /\ call' = "tally_keys"
    /\ exc' = "none"
    /\ UNCHANGED <<pc, attrs, scaling_config, secondary_scaling_config,
                   deployment_delim, param_delim, autoscaling_params,
                   secondary_autoscaling_params, reference_pods, cluster,
                   idx, calls, ret, rc>>

NextTally == Construct \/ CallTallyKeys

SpecTally == InitTally /\ [][NextTally]_vars

\* the keys of the store that count toward a tally
InProgress ==
    {key \in DOMAIN store :
        /\ store[key].type = "hash"
        /\ store[key].status # Null
        /\ store[key].status[1] \notin completed_statuses}

\* C22: after tally_keys, the tally of each prefix equals the number of
\* scanned keys that match the prefix, are hashes, and whose status is
\* present and neither done nor failed; every other key is counted nowhere
\* and causes no error.
C22_TallyCounts ==
    call = "tally_keys" =>
        /\ pc = "idle"
        /\ exc = "none"
        /\ DOMAIN redis_keys = TallyPrefixes
        /\ \A k \in TallyPrefixes :
              redis_keys[k] = Cardinality({key \in InProgress : Matches(k, key)})
        /\ redis_keys[S_predict] + redis_keys[S_train] + redis_keys[S_track]
              = Cardinality({key \in InProgress :
                               \E k \in TallyPrefixes : Matches(k, key)})

\* the store held a counted predict hash next to a predict hash that is done
C22_Witness ==
    /\ call = "tally_keys"
    /\ DOMAIN store = {KeyName(S_predict, 1), KeyName(S_predict, 2)}
    /\ store[KeyName(S_predict, 1)] = Hash("done")
    /\ store[KeyName(S_predict, 2)] = Hash("new")
    /\ redis_keys[S_predict] = 1

\* C23: tallies never carry over: after any sequence of tally_keys calls with
\* arbitrary store contents in between, the tally left by the last call is
\* the tally a freshly constructed engine computes from the contents the
\* last call scanned, in whatever order they are scanned.
C23_TallyIsSnapshot ==
    call = "tally_keys" =>
        \A scan \in ScanIter(store) :
            redis_keys = tally_keys([k \in TallyPrefixes |-> 0], store, scan)

\* a call found a tally above the one it left, and left none above zero
C23_Witness ==
    /\ call = "tally_keys"
    /\ fn.op = "tally_keys"
    /\ fn.fell
    /\ \A k \in TallyPrefixes : redis_keys[k] = 0
    /\ Cardinality(DOMAIN store) = 2

\* C24: the tally covers every configured queue prefix: tally_keys produces
\* a count for the prefix of every rule retained by parsing, so
\* scale_primary_resources never fails for a missing tally.
C24_TallyCoversPrefixes ==
    Constructed =>
        /\ \A i \in DOMAIN autoscaling_params :
              \A j \in DOMAIN autoscaling_params[i].entries :
                  autoscaling_params[i].entries[j].prefix \in DOMAIN redis_keys
        /\ exc # "KeyError"

----------------------------------------------------------------------------
(* The order of a cycle, stated for the specification Spec *)

\* within a pass, every patch directly follows the successful list call that
\* read the current count of the same resource, the primary patch carries the
\* desired count computed from that count, and the calls of the primary pass
\* precede those of the secondary pass
ReadThenPatch ==
    \A j \in DOMAIN calls :
        /\ IsPatch(calls[j]) =>
              /\ j > 1
              /\ IsList(calls[j - 1])
              /\ calls[j - 1].ok
              /\ calls[j - 1].pass = calls[j].pass
              /\ calls[j - 1].res = calls[j].res
              /\ calls[j - 1].read = Some(calls[j].current)
              /\ calls[j].pass = "primary" =>
                    \E i \in DOMAIN autoscaling_params :
                        /\ autoscaling_params[i].key = calls[j].res
                        /\ calls[j].value =
                              PrimaryDesired(redis_keys,
                                             autoscaling_params[i].entries,
                                             calls[j - 1].read[1])
        /\ calls[j].pass = "primary" =>
              \A k \in 1..j : calls[k].pass = "primary"

\* scale() moves from the tally to the primary pass, from the primary pass to
\* the secondary pass and from the secondary pass back to its caller, unless
\* a pass raises; the tally is taken when scale() is entered and not again
PassOrder ==
    (call' = "scale" /\ pc' # pc) =>
        \/ /\ pc \in {"idle", "raised"}
           /\ pc' = "primary"
           /\ calls' = <<>>
           /\ \E scan \in ScanIter(store') :
                 redis_keys' = tally_keys(redis_keys, store', scan)
        \/ /\ pc = "primary"
           /\ pc' \in {"secondary", "raised"}
           /\ redis_keys' = redis_keys
        \/ /\ pc = "secondary"
           /\ pc' \in {"idle", "raised"}
           /\ redis_keys' = redis_keys

\* C25: one call of scale runs the tally, then the primary pass, then the
\* secondary pass, each once and in that order; within the primary pass each
\* fingerprint's current count is read from the cluster before its desired
\* count is computed, and its patch, if any, is issued after both.
C25_ScaleOrder == []ReadThenPatch /\ [][PassOrder]_vars

\* scale() returned after a primary pass that patched and a secondary pass
\* that read its reference
C25_Witness ==
    /\ call = "scale"
    /\ pc = "idle"
    /\ \E j \in DOMAIN calls : IsPatch(calls[j]) /\ calls[j].pass = "primary"
    /\ \E j \in DOMAIN calls : IsList(calls[j]) /\ calls[j].pass = "secondary"

\* the well-formed secondary rules the engine holds
SecondaryRules ==
    {SecondaryRule(secondary_autoscaling_params[i]) :
        i \in {j \in DOMAIN secondary_autoscaling_params :
                 ~SecondaryMalformed(secondary_autoscaling_params[j])}}

\* some rule the engine holds names a resource type that is not managed
UnmanagedRule ==
    \/ \E i \in DOMAIN autoscaling_params :
          autoscaling_params[i].key[2] \notin managed_resource_types
    \/ \E r \in SecondaryRules :
          \/ r.resource_type \notin managed_resource_types
          \/ r.reference_resource_type \notin managed_resource_types

\* C26: get_current_pods fails with ValueError for a resource type other
\* than deployment or job before any cluster-API call is made for it, and a
\* rule naming such a type makes the scaling pass that evaluates it, primary
\* or secondary, raise that error.
C26_UnmanagedTypeRaises ==
    /\ \A j \in DOMAIN calls : calls[j].res[2] \in managed_resource_types
    /\ (/\ call = "scale"
        /\ pc \in {"idle", "raised"}
        /\ exc # "ApiException"
        /\ UnmanagedRule)
       => (pc = "raised" /\ exc = "ValueError")

----------------------------------------------------------------------------
(* get_current_pods and get_secondary_desired_pods, stated for SpecFn *)

\* the positions of the listed items that have the name asked for
FnNamed == {i \in DOMAIN fn.items : fn.items[i].name = fn.name}

\* C27: for a managed resource type, get_current_pods returns, for the first
\* listed resource whose name matches, spec.replicas of a deployment
\* (status.available_replicas when only_running) and spec.parallelism of a
\* job, a null value being returned as 0; when no listed resource has the
\* name it returns 0.
C27_GetCurrentPods ==
    (fn.op = "get_current_pods" /\ fn.resource_type \in managed_resource_types)
    =>
    /\ fn.raised = "none"
    /\ IF FnNamed = {} THEN fn.result = 0
       ELSE LET first == fn.items[CHOOSE i \in FnNamed : \A j \in FnNamed : i <= j]
                field == IF fn.resource_type = S_deployment
                         THEN IF fn.only_running THEN first.available
                              ELSE first.value
                         ELSE first.value
            IN  fn.result = IF field = Null THEN 0 ELSE field[1]

\* a deployment listed twice under the name: the first has no available
\* replicas yet, the second has some, and only_running reads the first as 0
C27_Witness ==
    /\ fn.op = "get_current_pods"
    /\ fn.resource_type = S_deployment
    /\ fn.only_running
    /\ Len(fn.items) = 2
    /\ fn.items[1] = Item(N_a, Some(2), Null)
    /\ fn.items[2] = Item(N_a, Some(3), Some(1))
    /\ fn.result = 0

----------------------------------------------------------------------------
(* Cluster-API errors, stated for the specification Spec *)

\* C28: a cluster-API error raised by a list or patch call, of a deployment
\* or of a job, is propagated to the caller after that single attempt: no
\* further call reaches the cluster API and the error is not turned into a
\* normal result.
C28_ApiErrorPropagates ==
    /\ \A j \in DOMAIN calls :
          ~calls[j].ok =>
              /\ j = Len(calls)
              /\ pc = "raised"
              /\ exc = "ApiException"
              /\ IsPatch(calls[j]) => (ret.called /\ ret.result = "raised")
    /\ (pc = "raised" /\ exc = "ApiException") =>
          (calls # <<>> /\ ~calls[Len(calls)].ok)

\* the patch of a job failed in the secondary pass, after the list calls of
\* the reference and of the job had succeeded
C28_Witness ==
    /\ pc = "raised"
    /\ exc = "ApiException"
    /\ Len(calls) >= 3
    /\ calls[Len(calls)].api = "patch_namespaced_job"
    /\ calls[Len(calls)].pass = "secondary"
    /\ ~calls[Len(calls)].ok
    /\ calls[Len(calls) - 1].ok

----------------------------------------------------------------------------
(* Consecutive polling cycles of one engine *)

\* the patch that failed and ended the last call of scale(), if one did
LastFailedPatch ==
    IF /\ call = "scale"
       /\ pc = "raised"
       /\ exc = "ApiException"
       /\ calls # <<>>
       /\ IsPatch(calls[Len(calls)])
    THEN Some([pass |-> calls[Len(calls)].pass, res |-> calls[Len(calls)].res,
               field |-> calls[Len(calls)].field,
               value |-> calls[Len(calls)].value])
    ELSE Null

\* scale() is called again; fn notes the patch that failed in the call before
\* and whether the store and the cluster are as that call found them
CallScaleAgain ==
    /\ EnterScale
    /\ fn' = [op |-> "scale",
              failed |-> LastFailedPatch,
              same |-> store' = store /\ cluster' = cluster]

\* a primary rule, a secondary rule, and both
RetrySetups ==
    { <<<<RuleA>>, <<<<S_None>>>>>>,
      <<<<<<S_None>>>>, <<SecondaryB>>>>,
      <<<<RuleA>>, <<SecondaryB>>>> }

InitRetry ==
    /\ pc = "new"
    /\ call = "none"
    /\ exc = "none"
    /\ \E su \in RetrySetups :
          /\ scaling_config = ConfigOf(su[1], D_entry, D_param)
          /\ secondary_scaling_config = ConfigOf(su[2], D_entry, D_param)
    /\ deployment_delim = D_entry
    /\ param_delim = D_param
    /\ attrs = {}
    /\ autoscaling_params = <<>>
    /\ secondary_autoscaling_params = <<>>
    /\ redis_keys = <<>>
    /\ reference_pods = <<>>
    /\ store = [k \in EngineKeys |-> Hash("done")]
    /\ cluster \in InitCluster
    /\ idx = 1
    /\ calls = <<>>
    /\ ret = NoScale
    /\ fn = [op |-> "none"]
    /\ rc = [op |-> "none"]

NextRetry ==
    \/ Construct
    \/ CallScaleAgain
    \/ PrimaryStep
    \/ PrimaryDone
    \/ SecondaryStep
    \/ SecondaryDone

SpecRetry == InitRetry /\ [][NextRetry]_vars

\* the patch noted as failed was issued in the current call of scale()
Reissued ==
    \E j \in DOMAIN calls :
        /\ IsPatch(calls[j])
        /\ calls[j].pass = fn.failed[1].pass
        /\ calls[j].res = fn.failed[1].res
        /\ calls[j].field = fn.failed[1].field
        /\ calls[j].value = fn.failed[1].value

\* C29: a failed patch is retried on the next polling cycle if the divergence
\* persists: when a patch failed in one call of scale and the backlog, the
\* cluster and the reference's replica count are the same at the next call,
\* a next call that runs to its end has issued the same patch again, for
\* resources scaled by primary rules and by secondary rules.
C29_FailedPatchRetried ==
    (/\ call = "scale"
     /\ pc = "idle"
     /\ fn.op = "scale"
     /\ fn.failed # Null
     /\ fn.same)
    => Reissued

\* the part of C29 that the primary pass keeps
C29_PrimaryPatchRetried ==
    (/\ call = "scale"
     /\ pc = "idle"
     /\ fn.op = "scale"
     /\ fn.failed # Null
     /\ fn.same
     /\ fn.failed[1].pass = "primary")
    => Reissued

\* raw = current + replicas_per_reference * new_reference of the call in fn
FnRaw == fn.current_pods + fn.pods_per_reference_pod * fn.reference_pods

\* C30 as stated: get_secondary_desired_pods returns
\* guard(max(min, min(max, raw)), current) with
\* raw = current + replicas_per_reference * new_reference, for all
\* non-negative inputs.
C30_AsStated ==
    fn.op = "get_secondary_desired_pods" =>
        fn.result = Guard(Clamp(FnRaw, fn.min_pods, fn.max_pods), fn.current_pods)

\* C30, amended: get_secondary_desired_pods returns guard(c, current) with
\* raw = current + replicas_per_reference * new_reference and c = max when
\* raw > max, else min when raw < min, else raw, for all non-negative inputs;
\* this is guard(max(min, min(max, raw)), current) whenever min <= max, and
\* the four worked examples give 5, 4, 2 and 10.
C30_SecondaryDesired ==
    /\ fn.op = "get_secondary_desired_pods" =>
          LET c == IF FnRaw > fn.max_pods THEN fn.max_pods
                   ELSE IF FnRaw < fn.min_pods THEN fn.min_pods
                   ELSE FnRaw
          IN  /\ fn.result = Guard(c, fn.current_pods)
              /\ fn.min_pods <= fn.max_pods =>
                    fn.result = Guard(Clamp(FnRaw, fn.min_pods, fn.max_pods),
                                      fn.current_pods)
    /\ get_secondary_desired_pods(1, 3, 0, 10, 2) = 5
    /\ get_secondary_desired_pods(1, 3, 0, 4, 2) = 4
    /\ get_secondary_desired_pods(1, 1, 2, 4, 0) = 2
    /\ get_secondary_desired_pods(1, 0, 0, 4, 10) = 10

\* inverted bounds and a raw value above both: the upper bound is returned
C30_Witness ==
    /\ fn.op = "get_secondary_desired_pods"
    /\ fn.reference_pods > 0
    /\ fn.current_pods > 0
    /\ fn.min_pods > fn.max_pods
    /\ FnRaw > fn.min_pods
    /\ fn.result = fn.max_pods

----------------------------------------------------------------------------
(* The reference-replica memory of the secondary pass, over polling cycles *)

\* a second rule for the name a: the job a, with the same reference
SecondaryAJob == G(N_a, S_job, <<"1">>, <<"0">>, <<"3">>)

\* the secondary configurations whose memory is followed: two rules of
\* different names, and two rules of one name and different types
MemorySetups ==
    { <<SecondaryA, SecondaryB>>,
      <<SecondaryA, SecondaryAJob>> }

InitMemory ==
    /\ pc = "new"
    /\ call = "none"
    /\ exc = "none"
    /\ scaling_config = ConfigOf(<<RuleB>>, D_entry, D_param)
    /\ \E s \in MemorySetups :
          secondary_scaling_config = ConfigOf(s, D_entry, D_param)
    /\ deployment_delim = D_entry
    /\ param_delim = D_param
    /\ attrs = {}
    /\ autoscaling_params = <<>>
    /\ secondary_autoscaling_params = <<>>
    /\ redis_keys = <<>>
    /\ reference_pods = <<>>
    /\ store = [k \in EngineKeys |-> Hash("done")]
    /\ cluster \in InitCluster
    /\ idx = 1
    /\ calls = <<>>
    /\ ret = NoScale
    /\ fn = [op |-> "none"]
    /\ rc = [op |-> "none"]

\* one iteration of the loop of scale_secondary_resources; fn notes, for each
\* entry, the reference count its last evaluation read (Null before the first)
NoteEvaluation ==
    /\ EvaluateSecondary
    /\ LET seen == IF fn.op = "memory" THEN fn.seen
                   ELSE [i \in DOMAIN secondary_autoscaling_params |-> Null]
           read == Len(calls') > Len(calls) /\ calls'[Len(calls) + 1].ok
       IN  fn' = [op |-> "memory",
                  seen |-> IF read
                           THEN [seen EXCEPT ![idx] = calls'[Len(calls) + 1].read]
                           ELSE seen]

NextMemory ==
    \/ Construct
    \/ CallScale
    \/ PrimaryStep
    \/ PrimaryDone
    \/ NoteEvaluation
    \/ SecondaryDone

SpecMemory == InitMemory /\ [][NextMemory]_vars

\* the value rp holds for name, 0 when it holds none yet
MemoryOf(rp, name) == IF name \in DOMAIN rp THEN rp[name] ELSE 0

\* the step evaluates the well-formed rule at idx and reads its reference
ReadsReference ==
    /\ pc = "secondary"
    /\ idx \in DOMAIN secondary_autoscaling_params
    /\ ~SecondaryMalformed(secondary_autoscaling_params[idx])
    /\ Len(calls') > Len(calls)
    /\ calls'[Len(calls) + 1].ok

\* what C31 says of one evaluation of the rule at idx
RuleMemory ==
    ReadsReference =>
        LET r == SecondaryRule(secondary_autoscaling_params[idx])
            observed == calls'[Len(calls) + 1].read[1]
            last == IF fn.op = "memory" THEN fn.seen[idx] ELSE Null
            memory == MemoryOf(reference_pods, r.resource_name)
            inspected == \/ Len(calls') > Len(calls) + 1
                         \/ pc' = "raised" /\ exc' = "ValueError"
        IN  /\ last = Null => memory = 0
            /\ inspected <=> observed - memory > 0
            /\ reference_pods'[r.resource_name] = observed
            /\ (last # Null /\ inspected) => observed > last[1]

\* C31: for each secondary rule, over any sequence of cycles, the rule's
\* memory starts at 0; in each evaluation new_reference is the reference's
\* available replicas minus the memory, the dependent resource is inspected
\* and possibly patched only when new_reference > 0, and after every
\* evaluation, scaled or not, the memory equals the reference count just
\* observed, so the same reference replicas are never counted as new in two
\* evaluations.
C31_RuleMemory == [][RuleMemory]_vars

\* the rules the engine holds name different resources
DistinctNames ==
    \A i, j \in DOMAIN secondary_autoscaling_params :
        (/\ i # j
         /\ ~SecondaryMalformed(secondary_autoscaling_params[i])
         /\ ~SecondaryMalformed(secondary_autoscaling_params[j]))
        => SecondaryRule(secondary_autoscaling_params[i]).resource_name
           # SecondaryRule(secondary_autoscaling_params[j]).resource_name

\* the part of C31 the code keeps: rules whose resources differ in name
C31_DistinctNames == [][DistinctNames => RuleMemory]_vars

\* the fingerprint of the resource a secondary rule scales
DependentKey(r) == <<r.resource_namespace, r.resource_type, r.resource_name>>

\* what C32 says of one evaluation: the memories of the rules of other
\* fingerprints are as they were
SeparateMemories ==
    ReadsReference =>
        LET r == SecondaryRule(secondary_autoscaling_params[idx])
        IN  \A j \in DOMAIN secondary_autoscaling_params :
                (/\ ~SecondaryMalformed(secondary_autoscaling_params[j])
                 /\ DependentKey(SecondaryRule(secondary_autoscaling_params[j]))
                    # DependentKey(r))
                => MemoryOf(reference_pods',
                       SecondaryRule(secondary_autoscaling_params[j]).resource_name)
                   = MemoryOf(reference_pods,
                       SecondaryRule(secondary_autoscaling_params[j]).resource_name)

\* C32: the reference-replica memory is keyed by resource fingerprint: two
\* secondary rules whose dependent resources have different fingerprints, such
\* as one name with two resource types, keep separate memories, so evaluating
\* one rule never changes the number of new reference replicas the other sees.
C32_SeparateMemories == [][SeparateMemories]_vars

----------------------------------------------------------------------------
(* The grouping of the parsed rules, stated for SpecParse *)

\* the rule strings split into entries and fields, as the constructor does
RawPrimary == RawParams(RStrip(scaling_config), deployment_delim, param_delim)

\* the fingerprints held are distinct, each fingerprint of a kept entry is
\* held, and each maps to the rules of its kept entries in their order
GroupedBy(kept(_)) ==
    /\ \A i, j \in DOMAIN autoscaling_params :
          i # j => autoscaling_params[i].key # autoscaling_params[j].key
    /\ \A e \in DOMAIN RawPrimary :
          kept(RawPrimary[e]) =>
              \E i \in DOMAIN autoscaling_params :
                  autoscaling_params[i].key = EntryKey(RawPrimary[e])
    /\ \A i \in DOMAIN autoscaling_params :
          LET mine(e) == kept(e) /\ EntryKey(e) = autoscaling_params[i].key
              es == SelectSeq(RawPrimary, mine)
          IN  autoscaling_params[i].entries = [k \in DOMAIN es |-> RuleOf(es[k])]

\* C33: rules are grouped by the fingerprint (namespace, resource_type,
\* resource_name) with surrounding whitespace stripped: after parsing, each
\* fingerprint maps to the list of its well-formed entries in the order they
\* appear in the configuration string, each entry keeping its own min, max,
\* keys-per-pod and prefix.
C33_GroupedByFingerprint == Constructed => GroupedBy(WellFormed)

\* an entry the parser keeps: seven fields or more, the first three integers
Accepted(entry) ==
    /\ Len(entry) >= 7
    /\ \A f \in 1..3 : ParseInt(entry[f]).ok

\* the part of C33 the code keeps: the grouping of the entries it accepts
C33_AcceptedGrouped == Constructed => GroupedBy(Accepted)

\* two different rules of one fingerprint, the second written with padding
C33_TwoRulesInOrder ==
    /\ Constructed
    /\ Len(autoscaling_params) = 1
    /\ autoscaling_params[1].key = <<N_ns, S_deployment, N_a>>
    /\ autoscaling_params[1].entries = <<RuleOf(RuleA2), RuleOf(E_padded)>>

----------------------------------------------------------------------------
(* The bounds of the rules the engine holds, stated for Spec *)

\* the primary rules the engine holds
PrimaryRules ==
    UNION {{autoscaling_params[i].entries[k] :
               k \in DOMAIN autoscaling_params[i].entries} :
           i \in DOMAIN autoscaling_params}

\* C34: every rule held by the engine after construction satisfies
\* min_replicas >= 0, max_replicas >= min_replicas and
\* replicas_per_backlog_unit > 0, so computing a rule's desired count never
\* divides by zero and never clamps against inverted bounds.
C34_RuleBounds ==
    /\ Constructed =>
          \A rule \in PrimaryRules :
              /\ rule.min_pods >= 0
              /\ rule.max_pods >= rule.min_pods
              /\ rule.keys_per_pod > 0
    /\ exc # "ZeroDivisionError"

----------------------------------------------------------------------------
(* The raw value of get_desired_pods, stated for SpecFn *)

\* the call of fn leaves the raw value as it is: the bounds are 0 and at
\* least the backlog, and there are no replicas the guard could keep
FnUnclamped ==
    /\ fn.op = "get_desired_pods"
    /\ fn.min_pods = 0
    /\ fn.max_pods >= fn.backlog
    /\ fn.current_pods = 0

\* C35: the pre-clamp raw value of get_desired_pods is
\* floor(backlog / per_unit) for all backlog >= 0 and per_unit > 0, and it is
\* monotone: increasing the backlog with per_unit fixed never decreases it.
C35_RawIsFloor ==
    FnUnclamped =>
        /\ fn.result * fn.keys_per_pod <= fn.backlog
        /\ fn.backlog < (fn.result + 1) * fn.keys_per_pod
        /\ \A less \in 0..fn.backlog :
              get_desired_pods(FnKeys(less, 0), S_predict, fn.keys_per_pod,
                               0, fn.max_pods, 0) <= fn.result

\* a backlog that is not a multiple of keys_per_pod: the quotient is rounded
\* down
C35_Witness ==
    /\ FnUnclamped
    /\ fn.keys_per_pod = 2
    /\ fn.backlog = 3
    /\ fn.result = 1

----------------------------------------------------------------------------
(* The desired counts are computed without side effects, stated for Spec *)

\* the desired count of the last scale_resource call is what the same
\* arguments and the tally as it is now give again
Recomputed ==
    ret.called =>
        \/ \E i \in DOMAIN autoscaling_params :
              /\ autoscaling_params[i].key
                     = <<ret.namespace, ret.resource_type, ret.name>>
              /\ autoscaling_params[i].entries # <<>>
              /\ EntriesRaise(redis_keys, autoscaling_params[i].entries) = "none"
              /\ ret.desired_pods
                     = PrimaryDesired(redis_keys, autoscaling_params[i].entries,
                                      ret.current_pods)
        \/ \E r \in SecondaryRules, new \in 1..MaxRef :
              /\ DependentKey(r) = <<ret.namespace, ret.resource_type, ret.name>>
              /\ ret.desired_pods
                     = get_secondary_desired_pods(new, r.pods_per_other_pod,
                           r.min_pods, r.max_pods, ret.current_pods)

\* a step of a cycle leaves the rule sets as construction parsed them; a
\* step of a pass leaves the tally as it is, a step of the primary pass the
\* memory too, and a step of the secondary pass every memory but the one of
\* the rule it evaluates
PassFrame ==
    /\ Constructed =>
          /\ autoscaling_params' = autoscaling_params
          /\ secondary_autoscaling_params' = secondary_autoscaling_params
    /\ pc \in {"primary", "secondary"} => redis_keys' = redis_keys
    /\ pc = "primary" => reference_pods' = reference_pods
    /\ (pc = "secondary" /\ idx \in DOMAIN secondary_autoscaling_params) =>
          \A n \in DOMAIN reference_pods :
              n # Strip(secondary_autoscaling_params[idx][1]) =>
                  /\ n \in DOMAIN reference_pods'
                  /\ reference_pods'[n] = reference_pods[n]

----------------------------------------------------------------------------
(* Scaling up needs backlog, stated for Spec *)

\* the rules of the fingerprint key
EntriesOf(key) == autoscaling_params[KeyIndex(autoscaling_params, key)].entries

\* the clamped raw target of every rule is at most current
NoRuleAbove(entries, current) ==
    \A k \in DOMAIN entries :
        /\ entries[k].keys_per_pod > 0
        /\ Clamp(Backlog(entries[k].prefix) \div entries[k].keys_per_pod,
                 entries[k].min_pods, entries[k].max_pods) <= current

\* no primary patch of a fingerprint with at most n rules, none of them
\* above current, raises the replica count
NoScaleUp(n) ==
    \A j \in DOMAIN calls :
        (/\ IsPatch(calls[j])
         /\ calls[j].pass = "primary"
         /\ Len(EntriesOf(calls[j].res)) <= n
         /\ NoRuleAbove(EntriesOf(calls[j].res), calls[j].current))
        => calls[j].value <= calls[j].current

\* C37: the primary pass never scales up without backlog to justify it: for
\* any fingerprint, with one rule or several, if every rule's clamped raw
\* target max(min, min(max, backlog // per_unit)) is at most the current
\* replica count, scale_primary_resources issues no patch that raises the
\* replica count above current.
C37_NoScaleUpWithoutBacklog == NoScaleUp(Len(autoscaling_params) + MaxEntries)

\* the part of C37 the code keeps: fingerprints with a single rule
C37_SingleRule == NoScaleUp(1)

\* the rules of entries whose clamped raw target is positive
PositiveRules(entries) ==
    {k \in DOMAIN entries :
        /\ entries[k].keys_per_pod > 0
        /\ Clamp(Backlog(entries[k].prefix) \div entries[k].keys_per_pod,
                 entries[k].min_pods, entries[k].max_pods) > 0}

\* no rule of the fingerprint key is above current, and at most one of them
\* has a positive target
NothingToAdd(key, current) ==
    /\ KeyIndex(autoscaling_params, key) # 0
    /\ NoRuleAbove(EntriesOf(key), current)
    /\ Cardinality(PositiveRules(EntriesOf(key))) <= 1

\* C37, amended: the primary pass never scales up without backlog to justify
\* it: for any fingerprint, with one rule or several, if every rule's clamped
\* raw target max(min, min(max, backlog // per_unit)) is at most the current
\* replica count and at most one rule's target is positive, the desired count
\* handed to scale_resource is at most current and no patch raises the replica
\* count above current.
C37_NoScaleUpWithoutSum ==
    /\ \A j \in DOMAIN calls :
          (/\ IsPatch(calls[j])
           /\ calls[j].pass = "primary"
           /\ NothingToAdd(calls[j].res, calls[j].current))
          => calls[j].value <= calls[j].current
    /\ (/\ ret.called
        /\ pc = "primary"
        /\ NothingToAdd(<<ret.namespace, ret.resource_type, ret.name>>,
                        ret.current_pods))
       => ret.desired_pods <= ret.current_pods

\* a fingerprint with two rules, one of them with a positive target below
\* the current count: the count is kept and nothing is patched
C37_Witness ==
    /\ ret.called
    /\ pc \in {"primary", "secondary"}
    /\ Len(EntriesOf(<<ret.namespace, ret.resource_type, ret.name>>)) = 2
    /\ NothingToAdd(<<ret.namespace, ret.resource_type, ret.name>>,
                    ret.current_pods)
    /\ ret.current_pods = MaxPods
    /\ ret.desired_pods = ret.current_pods
    /\ ret.result = "None"

----------------------------------------------------------------------------
(* Two primary passes on an unchanged backlog, stated for SpecFn *)

FnTwice == fn.op = "scale_primary_resources twice"

\* C38 as stated: primary scaling reaches a fixed point in one cycle: if the
\* backlog does not change and the cluster applies every patch exactly, then
\* after one call of scale_primary_resources a second call issues no patch
\* for any fingerprint, whether it has one rule or several.
C38_AsStated == FnTwice => fn.again = <<>>

\* C38, amended: with the backlog unchanged and every patch applied exactly,
\* a second call of scale_primary_resources issues no patch for a fingerprint
\* with a single rule, and none for a fingerprint with several rules that the
\* first call left at 0 or at the combined upper bound min(all max) with
\* max(all min) <= min(all max).
C38_FixedPoint ==
    FnTwice =>
        /\ Len(fn.entries) = 1 => fn.again = <<>>
        /\ (/\ Len(fn.entries) = 2
            /\ FnMin <= FnMax
            /\ fn.first \in {0, FnMax})
           => fn.again = <<>>

\* two rules and a first call that patched up to the combined upper bound:
\* the second call finds nothing to do
C38_Witness ==
    /\ FnTwice
    /\ Len(fn.entries) = 2
    /\ fn.patched # <<>>
    /\ fn.first = FnMax
    /\ fn.first > fn.current_pods
    /\ FnMin < FnMax
    /\ fn.again = <<>>

\* one rule and a first call that patched: the second call finds nothing to do
C38_WitnessSingle ==
    /\ FnTwice
    /\ Len(fn.entries) = 1
    /\ fn.patched # <<>>
    /\ fn.first > 0
    /\ fn.again = <<>>

----------------------------------------------------------------------------
(* The patches of the secondary pass, stated for SpecFn *)

\* get_secondary_desired_pods was called as scale_secondary_resources calls
\* it, with new reference replicas, for a rule with 0 <= min <= max, and
\* scale_resource then issues a patch
FnSecondaryPatch ==
    /\ fn.op = "get_secondary_desired_pods"
    /\ fn.reference_pods > 0
    /\ fn.min_pods <= fn.max_pods
    /\ scale_resource(fn.result, fn.current_pods, S_job, N_ns, N_b) # <<>>

\* C39 as stated: secondary scaling never lowers a dependent resource: for
\* every secondary rule with replicas_per_reference >= 0 and 0 <= min <= max,
\* and every current count, a patch issued by scale_secondary_resources
\* carries a value greater than the resource's current replica count.
C39_AsStated == FnSecondaryPatch => fn.result > fn.current_pods

\* C39, amended: for every secondary rule with replicas_per_reference >= 0
\* and 0 <= min <= max, and every current count, a patch issued by
\* scale_secondary_resources carries a value greater than the resource's
\* current replica count, or the value 0 when max is 0; a rule with max >= 1
\* never lowers its resource.
C39_RaisesOrZeroMax ==
    FnSecondaryPatch =>
        \/ fn.result > fn.current_pods
        \/ fn.max_pods = 0 /\ fn.result = 0

\* a raw value above max and a max below the current count: the guard keeps
\* the count and nothing is patched; the same with max = 0 patches to 0
C39_Witness ==
    /\ fn.op = "get_secondary_desired_pods"
    /\ fn.reference_pods > 0
    /\ fn.min_pods = 0
    /\ fn.max_pods = 0
    /\ fn.current_pods = 2
    /\ fn.result = 0
    /\ get_secondary_desired_pods(fn.reference_pods, fn.pods_per_reference_pod,
                                  0, 1, 2) = 2

----------------------------------------------------------------------------
(* The replica counts a primary pass leaves, stated for Spec *)

\* scale_primary_resources has returned to scale() and every cluster call it
\* made succeeded
PrimaryReturnedClean ==
    /\ call = "scale"
    /\ pc = "secondary"
    /\ idx = 1
    /\ \A j \in DOMAIN calls : calls[j].ok

\* the replica count the cluster holds for key, 0 for a resource it lacks
CountOf(key) == IF key \in DOMAIN cluster THEN cluster[key].replicas ELSE 0

\* the fingerprints of a single rule with 0 <= min <= max and a positive
\* keys_per_pod hold at least the rule's clamped raw target, and none when
\* the backlog is zero and min is 0
TargetsMet ==
    \A i \in DOMAIN autoscaling_params :
        LET key == autoscaling_params[i].key
            entries == autoscaling_params[i].entries
        IN  (/\ Len(entries) = 1
             /\ 0 <= entries[1].min_pods
             /\ entries[1].min_pods <= entries[1].max_pods
             /\ entries[1].keys_per_pod > 0)
            => /\ CountOf(key) >= Clamp(Backlog(entries[1].prefix)
                                           \div entries[1].keys_per_pod,
                                        entries[1].min_pods, entries[1].max_pods)
               /\ (Backlog(entries[1].prefix) = 0 /\ entries[1].min_pods = 0)
                      => CountOf(key) = 0

\* C40: after a call of scale_primary_resources in which every cluster call
\* succeeds, the replica count of each single-rule fingerprint with
\* 0 <= min <= max (the patched value, or the current count when no patch was
\* issued) is at least max(min, min(max, backlog // per_unit)); in
\* particular, when the backlog is zero and min is 0 the resource is at zero
\* replicas after the cycle.
C40_TargetsMet == PrimaryReturnedClean => TargetsMet

\* the part of C40 the code keeps: every fingerprint the engine holds has a
\* rule
C40_EveryFingerprintRuled ==
    (/\ PrimaryReturnedClean
     /\ \A i \in DOMAIN autoscaling_params :
           autoscaling_params[i].entries # <<>>)
    => TargetsMet

====
